---- MODULE Spec2Model ----
(***************************************************************************)
(* Datakult: a media catalogue (Django).  The model covers the relational  *)
(* store (Agent, Media, Tag and their many-to-many tables), the media_edit *)
(* and media_delete views with the orphan cleanup of core/utils.py, the    *)
(* sorting and filtering helpers of core/filters.py, and the backup        *)
(* export / import commands.                                               *)
(*                                                                         *)
(* Conventions.  A string of the program is a sequence of characters       *)
(* (<<"a", " ">>); long field names and file suffixes are single tokens.   *)
(* An optional value is a set with at most one element: {} is None and     *)
(* {v} is the value v.  A table is a function from primary keys to rows.   *)
(***************************************************************************)
EXTENDS Integers, Sequences, FiniteSets, TLC

VARIABLES agents, media, contributors, tags, mediaTags, mediaFiles, backups, last, resp,
          mtimes, clock, savedViews, token_cache

vars == <<agents, media, contributors, tags, mediaTags, mediaFiles, backups, last, resp,
          mtimes, clock, savedViews, token_cache>>

dbVars == <<agents, media, contributors, tags, mediaTags>>

----------------------------------------------------------------------------
(* Bounds of the model *)

MaxAgent == 2
MaxMedia == 2
MaxTag == 2

(* the instants of the clock, in microseconds, at which a backup command runs *)
MaxTime == 4

MaxUser == 2

(* the Media of the catalogue that is listed page by page *)
MaxItems == 41

MaxView == 2

(* the tokens Twitch hands out, and the seconds the clock of the token cache runs *)
MaxToken == 2

MaxSeconds == 130

UserIds == 1..MaxUser

ViewIds == 1..MaxView

(* request.user of a request without a session: AnonymousUser *)
Anonymous == 0

AgentIds == 1..MaxAgent
MediaIds == 1..MaxMedia
TagIds == 1..MaxTag

----------------------------------------------------------------------------
(* Generic helpers *)

NONE == {}

Some(v) == {v}

IsNone(o) == o = {}

TheValue(o) == CHOOSE v \in o : TRUE

Min(S) == CHOOSE x \in S : \A y \in S : x <= y

RECURSIVE SortedSeq(_)
SortedSeq(S) == IF S = {} THEN <<>> ELSE <<Min(S)>> \o SortedSeq(S \ {Min(S)})

Range(s) == {s[i] : i \in 1..Len(s)}

Restrict(f, D) == [x \in D |-> f[x]]

Upsert(f, k, v) == [x \in DOMAIN f \cup {k} |-> IF x = k THEN v ELSE f[x]]

----------------------------------------------------------------------------
(* Strings *)

MAX_NAME_LENGTH == 100

RECURSIVE LStrip(_)
LStrip(s) == IF s # <<>> /\ Head(s) = " " THEN LStrip(Tail(s)) ELSE s

RECURSIVE RStrip(_)
RStrip(s) == IF s # <<>> /\ s[Len(s)] = " " THEN RStrip(SubSeq(s, 1, Len(s) - 1)) ELSE s

Strip(s) == RStrip(LStrip(s))

Truncate(s, n) == IF Len(s) > n THEN SubSeq(s, 1, n) ELSE s

----------------------------------------------------------------------------
(* The Media model: choices and validators of its fields *)

MediaTypeChoices == {"BOOK", "GAME", "MUSIC", "COMIC", "FILM", "TV", "PERF", "BROADCAST"}

StatusChoices == {"PLANNED", "IN_PROGRESS", "COMPLETED", "PAUSED", "DNF"}

ScoreChoices == 1..10

MinPubYear == -4000

MaxPubYear == 2200

(* Agents (or tags) that are linked to at least one row of the many-to-many table m2m *)
Linked(m2m) == UNION {m2m[m] : m \in DOMAIN m2m}

(* Count("media") of the annotate() in delete_orphan_agents_by_ids *)
CountMedia(m2m, a) == Cardinality({m \in DOMAIN m2m : a \in m2m[m]})

----------------------------------------------------------------------------
(* core/utils.py: delete_orphan_agents_by_ids.  agent_ids is a sequence of  *)
(* optional ids.  The result is the new Agent table, the new through table  *)
(* (a deleted Agent takes its through rows with it) and the returned count. *)

OrphanQuerysetNoCount(agentTbl, m2m, ids) == {a \in DOMAIN agentTbl : a \in ids}

OrphanQueryset(agentTbl, m2m, ids) ==
    {a \in DOMAIN agentTbl : a \in ids /\ CountMedia(m2m, a) = 0}

delete_orphan_agents_counting_ids(agentTbl, m2m, agent_ids) ==
    LET ids == UNION {agent_ids[i] : i \in 1..Len(agent_ids)}
        qs == OrphanQueryset(agentTbl, m2m, ids)
    IN  IF ids = {}
        THEN [agents |-> agentTbl, m2m |-> m2m, count |-> 0]
        ELSE [agents |-> Restrict(agentTbl, DOMAIN agentTbl \ qs),
              m2m |-> [m \in DOMAIN m2m |-> m2m[m] \ qs],
              count |-> Cardinality({i \in 1..Len(agent_ids) : agent_ids[i] \cap DOMAIN agentTbl # {}})]

delete_orphan_agents_by_ids(agentTbl, m2m, agent_ids) ==
    LET ids == UNION {agent_ids[i] : i \in 1..Len(agent_ids)}
        qs == OrphanQueryset(agentTbl, m2m, ids)
    IN  IF ids = {}
        THEN [agents |-> agentTbl, m2m |-> m2m, count |-> 0]
        ELSE [agents |-> Restrict(agentTbl, DOMAIN agentTbl \ qs),
              m2m |-> [m \in DOMAIN m2m |-> m2m[m] \ qs],
              count |-> Cardinality(qs)]

(* values_list("pk", flat=True) handed on as an iterable of ids *)
IdList(S) == [i \in 1..Cardinality(S) |-> Some(SortedSeq(S)[i])]

----------------------------------------------------------------------------
(* core/views.py: _get_or_create_safe and the processing of new names.     *)
(* tbl maps primary keys to names; fresh is the sequence of primary keys   *)
(* the database hands out for the rows created by this request.            *)

CleanName(name) == Truncate(Strip(name), MAX_NAME_LENGTH)

WithName(tbl, name) == {k \in DOMAIN tbl : tbl[k] = name}

(* the result: the table, the fresh keys left, and the object found or made ({} when skipped) *)
GetOrCreateSafe(tbl, fresh, name) ==
    LET clean_name == CleanName(name)
        existing == WithName(tbl, clean_name)
    IN  IF clean_name = <<>>
        THEN [tbl |-> tbl, fresh |-> fresh, obj |-> NONE]
        ELSE IF existing # {}
        THEN [tbl |-> tbl, fresh |-> fresh, obj |-> Some(Min(existing))]
        ELSE [tbl |-> Upsert(tbl, Head(fresh), clean_name), fresh |-> Tail(fresh),
              obj |-> Some(Head(fresh))]

RECURSIVE ProcessNewNames(_, _, _)
ProcessNewNames(tbl, fresh, names) ==
    IF names = <<>>
    THEN [tbl |-> tbl, fresh |-> fresh, ids |-> {}]
    ELSE LET r == GetOrCreateSafe(tbl, fresh, Head(names))
             rest == ProcessNewNames(r.tbl, r.fresh, Tail(names))
         IN  [tbl |-> rest.tbl, fresh |-> rest.fresh, ids |-> r.obj \cup rest.ids]

(* how many rows the names make the request create *)
RECURSIVE CreatedBy(_, _)
CreatedBy(tbl, names) ==
    IF names = <<>> THEN 0
    ELSE LET clean_name == CleanName(Head(names))
         IN  IF clean_name = <<>> \/ WithName(tbl, clean_name) # {}
             THEN CreatedBy(tbl, Tail(names))
             ELSE 1 + CreatedBy(Upsert(tbl, 0, clean_name), Tail(names))

(* the sequences of n distinct keys drawn from S *)
RECURSIVE DistinctSeqs(_, _)
DistinctSeqs(S, n) ==
    IF n = 0 THEN {<<>>}
    ELSE UNION {{<<k>> \o t : t \in DistinctSeqs(S \ {k}, n - 1)} : k \in S}

----------------------------------------------------------------------------
(* core/forms.py MediaForm over core/models.py Media: validation and the    *)
(* row a valid form saves.                                                  *)

FormIsValid(post, agentTbl, tagTbl) ==
    /\ Strip(post.title) # <<>>
    /\ post.media_type \in MediaTypeChoices
    /\ post.status \in StatusChoices
    /\ \A y \in post.pub_year : y >= MinPubYear /\ y <= MaxPubYear
    /\ \A sc \in post.score : sc \in ScoreChoices
    /\ post.contributors \subseteq DOMAIN agentTbl
    /\ post.tags \subseteq DOMAIN tagTbl

(* the stored file name of an uploaded cover: upload_to="covers/" *)
CoverPath(name) == <<"covers", name>>

(* the instance after form.save(commit=False): an upload replaces the cover; *)
(* created_at is not editable and keeps its value                           *)
FormInstance(post, old_cover, created_at) ==
    [created_at |-> created_at,
     title |-> Strip(post.title),
     media_type |-> post.media_type,
     status |-> post.status,
     pub_year |-> post.pub_year,
     score |-> post.score,
     review |-> post.review,
     review_date |-> post.review_date,
     cover |-> IF IsNone(post.cover) THEN old_cover ELSE Some(CoverPath(TheValue(post.cover)))]

(* the clock, timezone.now(), in microseconds: a whole millisecond and an    *)
(* instant within one                                                        *)
Instants == {2000, 2345}

(* one instant, for the requests whose outcome the clock does not bear on *)
OneInstant == {2000}

(* a Media row without review, date and cover *)
PlainRow(media_type, status, score) ==
    [created_at |-> 2000, title |-> <<"T">>, media_type |-> media_type, status |-> status, pub_year |-> NONE,
     score |-> score, review |-> <<>>, review_date |-> NONE, cover |-> NONE]

----------------------------------------------------------------------------
(* The record of the last request or command *)

(* The archive of a backup: its members (path parts, directory or file), the   *)
(* content of database.json, and the tables the dump was taken from.         *)
EmptyDb == [agents |-> <<>>, media |-> <<>>, contributors |-> <<>>, tags |-> <<>>, mediaTags |-> <<>>]

NoArchive == [members |-> {}, database |-> <<>>, origin |-> EmptyDb]

(* a file handed to the import: its name and, when it exists, its content *)
NoFile == [name |-> <<>>, content |-> NONE]

ArchiveOf(file) == IF file.content = NONE THEN NoArchive ELSE TheValue(file.content)

(* the bytes of an archive that do not read as they should: "tar" is a file *)
(* that is no gzipped tar, "metadata" a metadata.json that is no JSON,      *)
(* "dump" a database.json that loaddata cannot deserialize                  *)
Damaged(archive, damage) ==
    [f \in DOMAIN archive \cup {"damage"} |-> IF f = "damage" THEN damage ELSE archive[f]]

DamageOf(archive) == IF "damage" \in DOMAIN archive THEN archive["damage"] ELSE ""

Request(kind, pk, status) ==
    [kind |-> kind, pk |-> pk, status |-> status, before |-> {}, beforeTags |-> {},
     mid |-> <<>>, deleted |-> 0, cleanup |-> FALSE,
     error |-> "", log |-> <<>>, file |-> NoFile, flush |-> FALSE, differed |-> FALSE,
     overwritten |-> {}, filename |-> NONE, keep |-> NONE, dir |-> <<>>,
     user |-> Anonymous, client |-> "", url |-> <<>>, dns |-> {}, http |-> <<>>,
     result |-> NONE, query |-> <<>>, method |-> "", to |-> "", raised |-> ""]

NoRequest == Request("none", 0, 0)

(* core/services/igdb.py: _token_cache as the module is loaded *)
NoToken == [access_token |-> NONE, expires_at |-> 0]

NoResponse == [kind |-> "none"]

(* a request that has reached a view and is not answered yet *)
Arrived(view, GET) == [kind |-> "request", view |-> view, GET |-> GET]

----------------------------------------------------------------------------
(* core/views.py: media_edit, POST.  pk = 0 is the media_add route.  newPk  *)
(* is the key the database gives a created Media, freshA and freshT the    *)
(* keys it gives the Agents and Tags created from the new names.           *)

RemovedIdsSwapped(before_contributor_ids, after_contributor_ids) ==
    after_contributor_ids \ before_contributor_ids

RemovedIds(before_contributor_ids, after_contributor_ids) ==
    before_contributor_ids \ after_contributor_ids

CleanupAfterEdit(agentTbl, m2m, removed_ids) ==
    IF removed_ids # {}
    THEN delete_orphan_agents_by_ids(agentTbl, m2m, IdList(removed_ids))
    ELSE [agents |-> agentTbl, m2m |-> m2m, count |-> 0]

MediaEdit(pk, post, newPk, freshA, freshT, now) ==
    /\ pk \in DOMAIN media \cup {0}
    /\ pk = 0 => newPk \in MediaIds \ DOMAIN media
    /\ Len(freshA) = CreatedBy(agents, post.new_contributors)
    /\ Len(freshT) = CreatedBy(tags, post.new_tags)
    /\ LET before_contributor_ids == IF pk # 0 THEN contributors[pk] ELSE {}
           pc == ProcessNewNames(agents, freshA, post.new_contributors)
           pt == ProcessNewNames(tags, freshT, post.new_tags)
           post_data == [post EXCEPT !.contributors = post.contributors \cup pc.ids,
                                     !.tags = post.tags \cup pt.ids]
           id == IF pk # 0 THEN pk ELSE newPk
           old_cover == IF pk # 0 THEN media[pk].cover ELSE NONE
           created_at == IF pk # 0 THEN media[pk].created_at ELSE now
           instance == FormInstance(post_data, old_cover, created_at)
           m2m == Upsert(contributors, id, post_data.contributors)
           after_contributor_ids == m2m[id]
           removed_ids == RemovedIds(before_contributor_ids, after_contributor_ids)
           c == CleanupAfterEdit(pc.tbl, m2m, removed_ids)
       IN  IF FormIsValid(post_data, pc.tbl, pt.tbl)
           THEN /\ media' = Upsert(media, id, instance)
                /\ agents' = c.agents
                /\ contributors' = c.m2m
                /\ tags' = pt.tbl
                /\ mediaTags' = Upsert(mediaTags, id, post_data.tags)
                /\ mediaFiles' = mediaFiles \cup instance.cover
                /\ last' = [Request("media_edit", id, 302) EXCEPT
                                !.before = before_contributor_ids,
                                !.beforeTags = IF pk # 0 THEN mediaTags[pk] ELSE {},
                                !.mid = m2m,
                                !.deleted = c.count,
                                !.cleanup = removed_ids # {}]
           ELSE /\ agents' = pc.tbl
                /\ tags' = pt.tbl
                /\ last' = Request("media_edit", pk, 200)
                /\ UNCHANGED <<media, contributors, mediaTags, mediaFiles>>
    /\ UNCHANGED <<backups, resp, mtimes, clock, savedViews, token_cache>>

(* core/views.py: media_delete, POST *)
MediaDelete(pk) ==
    /\ pk \in DOMAIN media
    /\ LET contributor_ids == IdList(contributors[pk])
           m2m == Restrict(contributors, DOMAIN contributors \ {pk})
           c == delete_orphan_agents_by_ids(agents, m2m, contributor_ids)
       IN  /\ media' = Restrict(media, DOMAIN media \ {pk})
           /\ mediaTags' = Restrict(mediaTags, DOMAIN mediaTags \ {pk})
           /\ agents' = c.agents
           /\ contributors' = c.m2m
           /\ last' = [Request("media_delete", pk, 302) EXCEPT
                           !.before = contributors[pk],
                           !.beforeTags = mediaTags[pk],
                           !.mid = m2m,
                           !.deleted = c.count,
                           !.cleanup = TRUE]
    /\ UNCHANGED <<tags, mediaFiles, backups, resp, mtimes, clock, savedViews, token_cache>>

(* core/utils.py: delete_orphan_agents_by_ids called on its own *)
(* the call; noted is what the history keeps of its argument *)
DeleteOrphanAgents(agent_ids, noted) ==
    /\ LET c == delete_orphan_agents_by_ids(agents, contributors, agent_ids)
       IN  /\ agents' = c.agents
           /\ contributors' = c.m2m
           /\ last' = [Request("delete_orphan_agents_by_ids", 0, 0) EXCEPT
                           !.mid = contributors,
                           !.deleted = c.count,
                           !.cleanup = TRUE,
                           !.query = noted]
    /\ UNCHANGED <<media, tags, mediaTags, mediaFiles, backups, resp, mtimes, clock, savedViews, token_cache>>

DeleteOrphanAgentsByIds(agent_ids) == DeleteOrphanAgents(agent_ids, <<>>)

----------------------------------------------------------------------------
(* The input sets of the catalogue specification.  A form offers the       *)
(* Agents and Tags that exist; new names arrive in new_contributors and    *)
(* new_tags.                                                               *)

NewNameLists == {<<>>, <<<<"a">>>>, <<<<" ", "b", " ">>>>, <<<<" ">>>>, <<<<"b">>, <<" ", "a">>>>}

NewTagLists == {<<>>, <<<<"t">>>>, <<<<" ", "t">>, <<"u">>>>}

Titles == {<<"T">>, <<" ">>}

SeqsUpTo(S, n) == UNION {[1..k -> S] : k \in 0..n}

BasePost ==
    [title |-> <<"T">>, media_type |-> "BOOK", status |-> "PLANNED", pub_year |-> NONE,
     score |-> NONE, review |-> <<>>, review_date |-> NONE, cover |-> NONE,
     contributors |-> {}, new_contributors |-> <<>>, tags |-> {}, new_tags |-> <<>>]

ContributorPosts ==
    {[BasePost EXCEPT !.title = t, !.contributors = c, !.new_contributors = n] :
        t \in Titles, c \in SUBSET DOMAIN agents, n \in NewNameLists}

TagPosts ==
    {[BasePost EXCEPT !.title = t, !.tags = c, !.new_tags = n] :
        t \in Titles, c \in SUBSET DOMAIN tags, n \in NewTagLists}

OptionalIds == {NONE} \cup {Some(a) : a \in AgentIds}

Init ==
    /\ agents = <<>>
    /\ media = <<>>
    /\ contributors = <<>>
    /\ tags = <<>>
    /\ mediaTags = <<>>
    /\ mediaFiles = {}
    /\ backups = <<>>
    /\ mtimes = <<>>
    /\ clock = 0
    /\ savedViews = <<>>
    /\ token_cache = NoToken
    /\ last = NoRequest
    /\ resp = NoResponse

(* the keys the database may give to the rows a request creates *)
NewMediaPks(pk) == IF pk = 0 THEN MediaIds \ DOMAIN media ELSE {0}

FreshPks(Ids, tbl, names) == DistinctSeqs(Ids \ DOMAIN tbl, CreatedBy(tbl, names))

EditRequest ==
    \E pk \in DOMAIN media \cup {0}, post \in ContributorPosts :
        \E newPk \in NewMediaPks(pk), freshA \in FreshPks(AgentIds, agents, post.new_contributors),
           now \in OneInstant :
            MediaEdit(pk, post, newPk, freshA, <<>>, now)

DeleteRequest == \E pk \in DOMAIN media : MediaDelete(pk)

CleanupCall == \E agent_ids \in SeqsUpTo(OptionalIds, 2) : DeleteOrphanAgentsByIds(agent_ids)

Next == EditRequest \/ DeleteRequest \/ CleanupCall

Spec == Init /\ [][Next]_vars

(* The catalogue with requests that change the tags of a Media *)
EditTagsRequest ==
    \E pk \in DOMAIN media \cup {0}, post \in TagPosts :
        \E newPk \in NewMediaPks(pk), freshT \in FreshPks(TagIds, tags, post.new_tags),
           now \in OneInstant :
            MediaEdit(pk, post, newPk, <<>>, freshT, now)

NextTags == EditTagsRequest \/ DeleteRequest

SpecTags == Init /\ [][NextTags]_vars

----------------------------------------------------------------------------
(* Parsing of request parameters *)

Digits == {"0", "1", "2", "3", "4", "5", "6", "7", "8", "9"}

DigitValue(c) ==
    CASE c = "0" -> 0 [] c = "1" -> 1 [] c = "2" -> 2 [] c = "3" -> 3 [] c = "4" -> 4
      [] c = "5" -> 5 [] c = "6" -> 6 [] c = "7" -> 7 [] c = "8" -> 8 [] c = "9" -> 9

RECURSIVE DecimalValue(_)
DecimalValue(s) ==
    IF s = <<>> THEN 0 ELSE 10 * DecimalValue(SubSeq(s, 1, Len(s) - 1)) + DigitValue(s[Len(s)])

IsDecimal(s) == s # <<>> /\ \A i \in 1..Len(s) : s[i] \in Digits

(* int(s): surrounding blanks and one sign are accepted; {} stands for ValueError *)
ParseInt(s) ==
    LET t == Strip(s)
    IN  IF IsDecimal(t) THEN Some(DecimalValue(t))
        ELSE IF t # <<>> /\ Head(t) = "-" /\ IsDecimal(Tail(t)) THEN Some(0 - DecimalValue(Tail(t)))
        ELSE IF t # <<>> /\ Head(t) = "+" /\ IsDecimal(Tail(t)) THEN Some(DecimalValue(Tail(t)))
        ELSE NONE

(* A partial date "Y" or "Y-M", as the column stores it: the date, then the precision *)
PartialDateKey(y, m, precision) == 1000 * y + 10 * m + precision

ParsePartialDate(s) ==
    IF Len(s) = 1 /\ s[1] \in Digits THEN Some(PartialDateKey(DigitValue(s[1]), 1, 0))
    ELSE IF Len(s) = 3 /\ s[1] \in Digits /\ s[2] = "-" /\ s[3] \in Digits \ {"0"}
    THEN Some(PartialDateKey(DigitValue(s[1]), DigitValue(s[3]), 1))
    ELSE NONE

----------------------------------------------------------------------------
(* core/filters.py: resolve_sorting *)

DefaultFieldCreatedAt == "created_at"

default_field == "review_date"

valid_fields == {"created_at", "updated_at", "review_date", "score"}

RECURSIVE LStripDash(_)
LStripDash(s) == IF s # <<>> /\ Head(s) = "-" THEN LStripDash(Tail(s)) ELSE s

(* a or b: the first operand unless it is None or the empty string *)
Or(a, b) == IF a = NONE \/ a = Some(<<>>) THEN b ELSE a

SortFieldUnchecked(raw_field) == raw_field

SortField(raw_field) ==
    IF \E f \in valid_fields : raw_field = <<f>> THEN raw_field ELSE <<default_field>>

resolve_sorting(GET) ==
    LET sort == TheValue(Or(GET.sort, Or(GET.order_by, Some(<<"-", default_field>>))))
        raw_field == LStripDash(sort)
        sort_field == SortField(raw_field)
        is_desc == Head(sort) = "-"
        normalized_sort == IF is_desc THEN <<"-">> \o sort_field ELSE sort_field
    IN  [sort_field |-> sort_field, sort |-> normalized_sort]

----------------------------------------------------------------------------
(* core/filters.py: extract_filters and the apply_*_filter functions.  A     *)
(* queryset is the set of primary keys of the Media it selects.             *)

extract_filters(GET) ==
    [contributor |-> GET.contributor,
     type |-> GET.type,
     status |-> GET.status,
     score |-> GET.score,
     review_from |-> GET.review_from,
     review_to |-> GET.review_to,
     has_review |-> GET.has_review,
     has_cover |-> GET.has_cover,
     has_any |-> \/ GET.type # <<>> \/ GET.status # <<>> \/ GET.score # <<>>
                 \/ GET.review_from # <<>> \/ GET.review_to # <<>>
                 \/ GET.has_review # "" \/ GET.has_cover # ""]

(* Agent.objects.filter(pk=contributor_id): a value that is no number raises ValueError *)
ContributorRaises(contributor_id) == contributor_id # <<>> /\ ParseInt(contributor_id) = NONE

apply_contributor_filter(queryset, contributor_id) ==
    LET contributor == IF contributor_id # <<>> THEN ParseInt(contributor_id) \cap DOMAIN agents
                       ELSE NONE
    IN  [queryset |-> IF contributor # NONE
                      THEN {m \in queryset : TheValue(contributor) \in contributors[m]}
                      ELSE queryset,
         contributor |-> contributor]

TypeFilterOff(queryset, media_types) == queryset

apply_type_filter(queryset, media_types) ==
    IF media_types = <<>> THEN queryset
    ELSE {m \in queryset : media[m].media_type \in Range(media_types)}

apply_status_filter(queryset, statuses) ==
    IF statuses = <<>> THEN queryset
    ELSE {m \in queryset : media[m].status \in Range(statuses)}

(* the Q object built from the score values: Q() is EmptyQ *)
EmptyQ == [isnull |-> FALSE, values |-> {}]

RECURSIVE ScoreQ(_)
ScoreQ(scores) ==
    IF scores = <<>> THEN EmptyQ
    ELSE LET rest == ScoreQ(Tail(scores))
         IN  IF Head(scores) = <<"none">> THEN [rest EXCEPT !.isnull = TRUE]
             ELSE [rest EXCEPT !.values = @ \cup ParseInt(Head(scores))]

FilterByScoreQWhenEmptyToo(queryset, score_q) ==
    {m \in queryset : \/ score_q.isnull /\ media[m].score = NONE
                      \/ media[m].score \cap score_q.values # {}}

(* queryset.filter(score_q): an empty Q adds no condition *)
FilterByScoreQ(queryset, score_q) ==
    IF score_q = EmptyQ THEN queryset
    ELSE {m \in queryset : \/ score_q.isnull /\ media[m].score = NONE
                           \/ media[m].score \cap score_q.values # {}}

apply_score_filter(queryset, scores) ==
    IF scores = <<>> THEN queryset ELSE FilterByScoreQ(queryset, ScoreQ(scores))

apply_date_and_content_filters(queryset, filters) ==
    LET from == ParsePartialDate(filters.review_from)
        to == ParsePartialDate(filters.review_to)
        q1 == IF filters.review_from # <<>> /\ from # NONE
              THEN {m \in queryset : \E d \in media[m].review_date : d >= TheValue(from)}
              ELSE queryset
        q2 == IF filters.review_to # <<>> /\ to # NONE
              THEN {m \in q1 : \E d \in media[m].review_date : d <= TheValue(to)}
              ELSE q1
        q3 == IF filters.has_review = "empty" THEN {m \in q2 : media[m].review = <<>>}
              ELSE IF filters.has_review = "filled" THEN {m \in q2 : media[m].review # <<>>}
              ELSE q2
    IN  IF filters.has_cover = "empty" THEN {m \in q3 : media[m].cover = NONE}
        ELSE IF filters.has_cover = "filled" THEN {m \in q3 : media[m].cover # NONE}
        ELSE q3

apply_filters(queryset, filters) ==
    LET c == apply_contributor_filter(queryset, filters.contributor)
        q1 == apply_type_filter(c.queryset, filters.type)
        q2 == apply_status_filter(q1, filters.status)
        q3 == apply_score_filter(q2, filters.score)
    IN  [queryset |-> apply_date_and_content_filters(q3, filters), contributor |-> c.contributor]

----------------------------------------------------------------------------
(* queryset.order_by(sort): the value a Media is ordered by; unset values,  *)
(* and the fields the rows here do not carry, order a Media nowhere         *)
SortKey(m, field) ==
    CASE field = <<"created_at">> -> {media[m].created_at}
      [] field = <<"score">> -> media[m].score
      [] field = <<"review_date">> -> media[m].review_date
      [] OTHER -> {}

Precedes(a, b, sort) ==
    \E ka \in SortKey(a, LStripDash(sort)), kb \in SortKey(b, LStripDash(sort)) :
        IF Head(sort) = "-" THEN ka > kb ELSE ka < kb

(* the orders the database may return the rows in: any order that agrees   *)
(* with the sort, rows of equal value in any order                         *)
RECURSIVE OrderBy(_, _)
OrderBy(queryset, sort) ==
    IF queryset = {} THEN {<<>>}
    ELSE UNION {{<<m>> \o rest : rest \in OrderBy(queryset \ {m}, sort)} :
                    m \in {x \in queryset : \A y \in queryset : ~Precedes(y, x, sort)}}

(* django.core.paginator.Paginator(queryset, 20), with no orphans and an   *)
(* empty first page allowed                                                 *)
PerPage == 20

Max(a, b) == IF a >= b THEN a ELSE b

NumPagesRoundedDown(count) == Max(1, count \div PerPage)

num_pages(count) == (Max(1, count) + PerPage - 1) \div PerPage

(* Paginator.get_page: a number that is no integer gives page 1, a number  *)
(* below 1 or beyond the last page gives the last page                     *)
validate_number(number, count) ==
    IF number = NONE THEN 1
    ELSE IF ParseInt(TheValue(number)) = NONE THEN 1
    ELSE IF TheValue(ParseInt(TheValue(number))) < 1 THEN num_pages(count)
    ELSE IF TheValue(ParseInt(TheValue(number))) > num_pages(count) THEN num_pages(count)
    ELSE TheValue(ParseInt(TheValue(number)))

Bottom(number) == (number - 1) * PerPage

Top(number, count) ==
    IF Bottom(number) + PerPage >= count THEN count ELSE Bottom(number) + PerPage

(* Paginator.page and Page.has_next *)
page(object_list, number) ==
    [number |-> number,
     object_list |-> SubSeq(object_list, Bottom(number) + 1, Top(number, Len(object_list))),
     has_next |-> number < num_pages(Len(object_list))]

get_page(object_list, page_number) ==
    page(object_list, validate_number(page_number, Len(object_list)))

(* core/queries.py build_search_queryset.  The letters of the strings here *)
(* and their lower case                                                     *)
LowerChar(c) ==
    CASE c = "A" -> "a" [] c = "B" -> "b" [] c = "T" -> "t" [] OTHER -> c

Lower(s) == [i \in 1..Len(s) |-> LowerChar(s[i])]

Contains(s, q) == \E i \in 0..(Len(s) - Len(q)) : SubSeq(s, i + 1, i + Len(q)) = q

(* the lookup icontains *)
icontains(value, query) == Contains(Lower(value), Lower(query))

(* the rows of Media joined with its contributors: one row for each        *)
(* contributor of a Media, one row without Agent for a Media that has none *)
NoAgent == 0

JoinRows(m) ==
    IF contributors[m] = {} THEN {<<m, NoAgent>>} ELSE {<<m, a>> : a \in contributors[m]}

(* q_objects *)
QObjects(row, query) ==
    \/ icontains(media[row[1]].title, query)
    \/ row[2] # NoAgent /\ icontains(agents[row[2]], query)
    \/ icontains(media[row[1]].review, query)
    \/ ParseInt(query) # NONE /\ media[row[1]].pub_year = ParseInt(query)

(* Media.objects.filter(q_objects): each Media with the number of its rows *)
Filter(query) ==
    LET rows == {row \in UNION {JoinRows(m) : m \in DOMAIN media} : QObjects(row, query)}
    IN  [m \in {row[1] : row \in rows} |-> Cardinality({row \in rows : row[1] = m})]

NotDistinct(rows) == rows

(* .distinct() *)
Distinct(rows) == [m \in DOMAIN rows |-> 1]

build_search_queryset(query) == Distinct(Filter(query))

BuildSearchQueryset(query) ==
    /\ resp' = [kind |-> "build_search_queryset", query |-> query,
                rows |-> build_search_queryset(query)]
    /\ last' = Request("build_search_queryset", 0, 0)
    /\ UNCHANGED <<agents, media, contributors, tags, mediaTags, mediaFiles, backups, mtimes, clock,
                   savedViews, token_cache>>

(* core/queries.py build_media_context behind core/views.py index and      *)
(* load_more_media                                                         *)
build_media_context(view, GET) ==
    /\ LET s == resolve_sorting(GET)
           filters == extract_filters(GET)
           search_query == Strip(GET.search)
           found == IF search_query # <<>> THEN DOMAIN build_search_queryset(search_query)
                    ELSE DOMAIN media
           f == apply_filters(found, filters)
       IN  IF ContributorRaises(filters.contributor)
           THEN resp' = [kind |-> view, GET |-> GET, status |-> 500]
           ELSE \E ordered \in OrderBy(f.queryset, s.sort) :
                resp' = [kind |-> view, GET |-> GET, status |-> 200,
                         sort_field |-> s.sort_field, sort |-> s.sort, order_by |-> s.sort,
                         filters |-> filters, contributor |-> f.contributor,
                         queryset |-> ordered,
                         page_obj |-> get_page(ordered, GET.page),
                         media_list |-> Range(get_page(ordered, GET.page).object_list)]
    /\ last' = Request(view, 0, resp'.status)
    /\ UNCHANGED <<agents, media, contributors, tags, mediaTags, mediaFiles, backups, mtimes, clock,
                   savedViews, token_cache>>

Index(GET) == build_media_context("index", GET)

LoadMoreMedia(GET) == build_media_context("load_more_media", GET)

----------------------------------------------------------------------------
(* The specification of the index view: a catalogue and a request, both     *)
(* drawn from bounded sets, and the view answering the request.             *)

ReviewedRow ==
    [created_at |-> 2000, title |-> <<"T">>, media_type |-> "BOOK", status |-> "COMPLETED", pub_year |-> NONE,
     score |-> Some(5), review |-> <<"r">>, review_date |-> Some(PartialDateKey(1, 3, 1)),
     cover |-> Some(CoverPath("c.jpg"))]

QueryRows ==
    {PlainRow("BOOK", "PLANNED", NONE), PlainRow("BOOK", "COMPLETED", Some(7)),
     PlainRow("FILM", "PLANNED", Some(7)), PlainRow("FILM", "COMPLETED", NONE),
     ReviewedRow, [ReviewedRow EXCEPT !.review_date = Some(PartialDateKey(2, 1, 0))]}

BaseGET ==
    [sort |-> NONE, order_by |-> NONE, contributor |-> <<>>, type |-> <<>>, status |-> <<>>,
     score |-> <<>>, review_from |-> <<>>, review_to |-> <<>>, has_review |-> "",
     has_cover |-> "", search |-> <<>>, page |-> NONE]

SortValues ==
    {NONE, Some(<<>>), Some(<<"score">>), Some(<<"-", "score">>), Some(<<"-", "-", "updated_at">>),
     Some(<<"created_at">>), Some(<<"bogus">>), Some(<<"-", "bogus">>), Some(<<"-">>),
     Some(<<"score", "-">>)}

OrderByValues == {NONE, Some(<<"-", "created_at">>), Some(<<"title">>)}

TypeLists == {<<>>, <<"BOOK">>, <<"BOOK", "FILM">>, <<"NOPE">>}

StatusLists == {<<>>, <<"COMPLETED">>, <<"PLANNED", "COMPLETED">>}

ScoreLists ==
    {<<>>, <<<<"none">>>>, <<<<"7">>>>, <<<<"x">>>>, <<<<"x">>, <<"7">>>>,
     <<<<"none">>, <<" ", "5">>>>, <<<<"1", "1">>>>}

GETs ==
    {[BaseGET EXCEPT !.sort = s, !.order_by = o] : s \in SortValues, o \in OrderByValues}
    \cup {[BaseGET EXCEPT !.type = t, !.status = st, !.score = sc] :
            t \in TypeLists, st \in StatusLists, sc \in ScoreLists}
    \cup {[BaseGET EXCEPT !.contributor = c, !.type = t] :
            c \in {<<"1">>, <<"9">>, <<"x">>}, t \in {<<>>, <<"BOOK">>}}
    \cup {[BaseGET EXCEPT !.has_review = r, !.has_cover = c, !.status = st] :
            r \in {"", "empty", "filled"}, c \in {"", "empty", "filled"},
            st \in {<<>>, <<"COMPLETED">>}}
    \cup {[BaseGET EXCEPT !.review_from = f, !.review_to = t, !.score = sc] :
            f \in {<<>>, <<"1">>, <<"x">>}, t \in {<<>>, <<"1", "-", "3">>, <<"1">>},
            sc \in {<<>>, <<<<"5">>>>}}

QueryAgents == {<<>>, Upsert(<<>>, 1, <<"a">>)}

InitQuery ==
    /\ agents \in QueryAgents
    /\ \E D \in SUBSET MediaIds :
        /\ media \in [D -> QueryRows]
        /\ contributors \in [D -> SUBSET DOMAIN agents]
    /\ DOMAIN agents \subseteq Linked(contributors)
    /\ tags = <<>>
    /\ mediaTags = [m \in DOMAIN media |-> {}]
    /\ mediaFiles = UNION {media[m].cover : m \in DOMAIN media}
    /\ backups = <<>>
    /\ mtimes = <<>>
    /\ clock = 0
    /\ savedViews = <<>>
    /\ token_cache = NoToken
    /\ last = NoRequest
    /\ resp \in {Arrived("index", GET) : GET \in GETs}

IndexRequest == resp.kind = "request" /\ resp.view = "index" /\ Index(resp.GET)

NextQuery == IndexRequest

SpecQuery == InitQuery /\ [][NextQuery]_vars

----------------------------------------------------------------------------
(* The specification of the pages: a catalogue of up to MaxItems Media,     *)
(* each created at its own instant, books and films in turn, and a request  *)
(* for a page of the index or of its continuation.                          *)

ItemRow(pk) ==
    [PlainRow(IF pk % 2 = 1 THEN "BOOK" ELSE "FILM", "PLANNED", NONE) EXCEPT
        !.created_at = 2000 + pk]

PageValues == {NONE, Some(<<"0">>), Some(<<"1">>), Some(<<"2">>), Some(<<"3">>), Some(<<"x">>)}

PageGETs ==
    {[BaseGET EXCEPT !.page = pg, !.sort = Some(so), !.type = t] :
        pg \in PageValues, so \in {<<"created_at">>, <<"-", "created_at">>},
        t \in {<<>>, <<"BOOK">>}}

InitPages ==
    /\ agents = <<>>
    /\ \E n \in 0..MaxItems : media = [pk \in 1..n |-> ItemRow(pk)]
    /\ contributors = [m \in DOMAIN media |-> {}]
    /\ tags = <<>>
    /\ mediaTags = [m \in DOMAIN media |-> {}]
    /\ mediaFiles = {}
    /\ backups = <<>>
    /\ mtimes = <<>>
    /\ clock = 0
    /\ savedViews = <<>>
    /\ token_cache = NoToken
    /\ last = NoRequest
    /\ resp \in {Arrived(view, GET) : view \in {"index", "load_more_media"}, GET \in PageGETs}

LoadMoreRequest ==
    resp.kind = "request" /\ resp.view = "load_more_media" /\ LoadMoreMedia(resp.GET)

NextPages == IndexRequest \/ LoadMoreRequest

SpecPages == InitPages /\ [][NextPages]_vars

----------------------------------------------------------------------------
(* The specification of the search: a catalogue whose titles, reviews,      *)
(* years and contributors' names share letters and digits, searched for     *)
(* itself and through the index.                                            *)

SearchAgents == <<<<"a">>, <<"A", "b">>>>

SearchRows ==
    {[PlainRow("BOOK", "PLANNED", NONE) EXCEPT !.title = t, !.review = r, !.pub_year = y] :
        t \in {<<"T", "a">>, <<"7">>}, r \in {<<>>, <<"b">>}, y \in {NONE, Some(7)}}

Queries ==
    {<<>>, <<"a">>, <<"A">>, <<"b">>, <<"7">>, <<" ", "7">>, <<"t", "a">>, <<"a", "T">>, <<"x">>}

InitSearch ==
    /\ \E D \in SUBSET MediaIds :
        /\ media \in [D -> SearchRows]
        /\ contributors \in [D -> SUBSET DOMAIN SearchAgents]
    /\ agents = Restrict(SearchAgents, Linked(contributors))
    /\ tags = <<>>
    /\ mediaTags = [m \in DOMAIN media |-> {}]
    /\ mediaFiles = {}
    /\ backups = <<>>
    /\ mtimes = <<>>
    /\ clock = 0
    /\ savedViews = <<>>
    /\ token_cache = NoToken
    /\ last = NoRequest
    /\ resp \in {NoResponse} \cup {Arrived("index", [BaseGET EXCEPT !.search = q]) : q \in Queries}

SearchCall == resp.kind = "none" /\ \E query \in Queries : BuildSearchQueryset(query)

NextSearch == SearchCall \/ IndexRequest

SpecSearch == InitSearch /\ [][NextSearch]_vars

----------------------------------------------------------------------------
(* core/utils.py: create_backup.  dumpdata writes one object per row, with   *)
(* the many-to-many fields of a Media as lists of primary keys.              *)

CurrentDb ==
    [agents |-> agents, media |-> media, contributors |-> contributors, tags |-> tags,
     mediaTags |-> mediaTags]

NamedObject(model, tbl, pk) == [model |-> model, pk |-> pk, fields |-> [name |-> tbl[pk]]]

(* the JSON serializer writes a datetime with milliseconds: isoformat() cut  *)
(* after the third decimal of the seconds                                   *)
SerializeDateTime(t) == (t \div 1000) * 1000

MediaObject(db, pk) ==
    [model |-> "core.media", pk |-> pk,
     fields |-> [row |-> [db.media[pk] EXCEPT !.created_at = SerializeDateTime(@)],
                 contributors |-> SortedSeq(db.contributors[pk]),
                 tags |-> SortedSeq(db.mediaTags[pk])]]

DumpData(db) ==
    LET a == SortedSeq(DOMAIN db.agents)
        t == SortedSeq(DOMAIN db.tags)
        m == SortedSeq(DOMAIN db.media)
    IN  [i \in 1..Len(a) |-> NamedObject("core.agent", db.agents, a[i])]
        \o [i \in 1..Len(t) |-> NamedObject("core.tag", db.tags, t[i])]
        \o [i \in 1..Len(m) |-> MediaObject(db, m[i])]

File(parts) == [path |-> parts, isdir |-> FALSE]

Dir(parts) == [path |-> parts, isdir |-> TRUE]

(* tar.add(media_root, arcname="media", recursive=True) *)
MediaTree(files) ==
    UNION {{Dir(<<"media">> \o SubSeq(f, 1, k)) : k \in 0..(Len(f) - 1)} : f \in files}
    \cup {File(<<"media">> \o f) : f \in files}

(* The tables of the other installed apps, as labels <<app, model>> with the *)
(* keys of their rows: what migrate, createsuperuser and a login leave.     *)
SystemTables ==
    (<<"contenttypes", "contenttype">> :> {1, 2}) @@ (<<"auth", "permission">> :> {1, 2})
    @@ (<<"auth", "group">> :> {}) @@ (<<"auth", "user">> :> {1})
    @@ (<<"sessions", "session">> :> {1}) @@ (<<"admin", "logentry">> :> {1})

ExcludeWithoutSessions == {<<"contenttypes">>, <<"auth", "permission">>}

(* exclude=["contenttypes", "auth.permission", "sessions.session"] *)
exclude == {<<"contenttypes">>, <<"auth", "permission">>, <<"sessions", "session">>}

(* dumpdata leaves out an app named in exclude and a model named in it *)
IsExcluded(label) == <<label[1]>> \in exclude \/ label \in exclude

(* the objects dumpdata writes for the tables of the other apps *)
DumpSystem(tables) ==
    UNION {{[model |-> label, pk |-> pk] : pk \in tables[label]} :
                label \in {l \in DOMAIN tables : ~IsExcluded(l)}}

(* metadata.json *)
Metadata ==
    [created_at |-> "timezone.now().isoformat()",
     datakult_version |-> "get_datakult_version()",
     django_version |-> "django.get_version()",
     database_engine |-> "settings.DATABASES['default']['ENGINE']"]

(* MEDIA_ROOT exists and holds an entry *)
MediaRootNotEmpty(files) == files # {}

create_backup(db, files) ==
    [members |-> {File(<<"metadata.json">>), File(<<"database.json">>)}
                 \cup (IF MediaRootNotEmpty(files) THEN MediaTree(files) ELSE {}),
     metadata |-> Metadata,
     database |-> DumpData(db),
     system |-> DumpSystem(SystemTables),
     origin |-> db]

(* a file name that does not end in .tar.gz gets the suffix *)
EndsWithTarGz(name) == name # <<>> /\ name[Len(name)] = ".tar.gz"

BackupFilename(filename) == IF EndsWithTarGz(filename) THEN filename ELSE filename \o <<".tar.gz">>

(* the default file name: strftime("%Y%m%d_%H%M%S_%f"), to the microsecond *)
TimestampToTheSecond(now) == ToString(now \div 1000000)

Timestamp(now) == ToString(now)

DefaultFilename(now) == <<"datakult_backup_", Timestamp(now), ".tar.gz">>

BackupPath(filename, now) ==
    IF filename = NONE THEN DefaultFilename(now) ELSE BackupFilename(TheValue(filename))

(* backup_dir.glob("datakult_backup_*.tar.gz") *)
MatchesGlob(name) ==
    Len(name) >= 2 /\ name[1] = "datakult_backup_" /\ name[Len(name)] = ".tar.gz"

(* sorted(..., key=st_mtime, reverse=True): the orders the sort can give;   *)
(* files of one modification time come in the order glob yields them        *)
RECURSIVE SortedByMtime(_, _)
SortedByMtime(files, times) ==
    IF files = {} THEN {<<>>}
    ELSE UNION {{<<f>> \o t : t \in SortedByMtime(files \ {f}, times)} :
                    f \in {x \in files : \A y \in files : times[x] >= times[y]}}

(* s[k:] *)
SliceFrom(s, k) ==
    IF k >= 0 THEN SubSeq(s, k + 1, Len(s))
    ELSE SubSeq(s, (IF Len(s) + k > 0 THEN Len(s) + k ELSE 0) + 1, Len(s))

FilesToDeleteKeepingOneMore(backup_files, keep_count) == SliceFrom(backup_files, keep_count + 1)

FilesToDelete(backup_files, keep_count) == SliceFrom(backup_files, keep_count)

(* _rotate_backups, and the same lines of auto_backup: the sets of files it may unlink *)
RotateBackups(times, keep_count) ==
    {IF Len(backup_files) > keep_count
     THEN Range(FilesToDelete(backup_files, keep_count)) ELSE {} :
        backup_files \in SortedByMtime({n \in DOMAIN times : MatchesGlob(n)}, times)}

(* the backup directory after create_backup wrote the file at instant now, *)
(* the file system giving it the modification time mtime                   *)
WrittenBackups(filename, now) ==
    Upsert(backups, BackupPath(filename, now), create_backup(CurrentDb, mediaFiles))

WrittenMtimes(filename, now, mtime) == Upsert(mtimes, BackupPath(filename, now), mtime)

ExportRecord(kind, filename, keep, now) ==
    [Request(kind, 0, 0) EXCEPT
        !.file = [name |-> BackupPath(filename, now),
                  content |-> Some(create_backup(CurrentDb, mediaFiles))],
        !.filename = filename,
        !.keep = keep,
        !.dir = WrittenMtimes(filename, now, 0)]

(* core/management/commands/export_backup.py: handle, with --filename and  *)
(* --keep or without them                                                  *)
ExportBackup(filename, keep, now, mtime) ==
    /\ clock' = now
    /\ IF keep = NONE
       THEN /\ backups' = WrittenBackups(filename, now)
            /\ mtimes' = WrittenMtimes(filename, now, mtime)
            /\ last' = [ExportRecord("export_backup", filename, keep, now) EXCEPT
                            !.dir = WrittenMtimes(filename, now, mtime)]
       ELSE IF TheValue(keep) < 1
       THEN /\ backups' = WrittenBackups(filename, now)
            /\ mtimes' = WrittenMtimes(filename, now, mtime)
            /\ last' = [ExportRecord("export_backup", filename, keep, now) EXCEPT
                            !.dir = WrittenMtimes(filename, now, mtime),
                            !.status = 1,
                            !.error = "--keep must be at least 1"]
       ELSE \E files_to_delete \in RotateBackups(WrittenMtimes(filename, now, mtime), TheValue(keep)) :
            /\ backups' = Restrict(WrittenBackups(filename, now),
                                   DOMAIN WrittenBackups(filename, now) \ files_to_delete)
            /\ mtimes' = Restrict(WrittenMtimes(filename, now, mtime),
                                  DOMAIN WrittenMtimes(filename, now, mtime) \ files_to_delete)
            /\ last' = [ExportRecord("export_backup", filename, keep, now) EXCEPT
                            !.dir = WrittenMtimes(filename, now, mtime),
                            !.cleanup = TRUE,
                            !.deleted = Cardinality(files_to_delete)]
    /\ UNCHANGED <<agents, media, contributors, tags, mediaTags, mediaFiles, resp, savedViews, token_cache>>

(* core/management/commands/auto_backup.py: handle; keep_count is any integer *)
AutoBackup(keep_count, now, mtime) ==
    /\ clock' = now
    /\ \E files_to_delete \in RotateBackups(WrittenMtimes(NONE, now, mtime), keep_count) :
            /\ backups' = Restrict(WrittenBackups(NONE, now),
                                   DOMAIN WrittenBackups(NONE, now) \ files_to_delete)
            /\ mtimes' = Restrict(WrittenMtimes(NONE, now, mtime),
                                  DOMAIN WrittenMtimes(NONE, now, mtime) \ files_to_delete)
            /\ last' = [ExportRecord("auto_backup", NONE, Some(keep_count), now) EXCEPT
                            !.dir = WrittenMtimes(NONE, now, mtime),
                            !.cleanup = TRUE,
                            !.deleted = Cardinality(files_to_delete)]
    /\ UNCHANGED <<agents, media, contributors, tags, mediaTags, mediaFiles, resp, savedViews, token_cache>>

----------------------------------------------------------------------------
(* core/management/commands/import_backup.py *)

IsUnsafeAbsoluteOnly(member) == member.path # <<>> /\ Head(member.path) = "/"

(* Path(member.name).is_absolute() or ".." in Path(member.name).parts *)
IsUnsafe(member) ==
    \/ member.path # <<>> /\ Head(member.path) = "/"
    \/ ".." \in Range(member.path)

FlushKeepsData(db) == db

(* call_command("flush") *)
Flush(db) == EmptyDb

LoadObjectInsertOnly(db, obj) ==
    IF obj.model = "core.agent"
    THEN IF obj.pk \in DOMAIN db.agents THEN db
         ELSE [db EXCEPT !.agents = Upsert(@, obj.pk, obj.fields.name)]
    ELSE IF obj.model = "core.tag"
    THEN IF obj.pk \in DOMAIN db.tags THEN db
         ELSE [db EXCEPT !.tags = Upsert(@, obj.pk, obj.fields.name)]
    ELSE IF obj.pk \in DOMAIN db.media THEN db
         ELSE [db EXCEPT !.media = Upsert(@, obj.pk, obj.fields.row),
                         !.contributors = Upsert(@, obj.pk, Range(obj.fields.contributors)),
                         !.mediaTags = Upsert(@, obj.pk, Range(obj.fields.tags))]

(* loaddata saves each object under its primary key and sets its many-to-many fields *)
LoadObject(db, obj) ==
    IF obj.model = "core.agent"
    THEN [db EXCEPT !.agents = Upsert(@, obj.pk, obj.fields.name)]
    ELSE IF obj.model = "core.tag"
    THEN [db EXCEPT !.tags = Upsert(@, obj.pk, obj.fields.name)]
    ELSE [db EXCEPT !.media = Upsert(@, obj.pk, obj.fields.row),
                    !.contributors = Upsert(@, obj.pk, Range(obj.fields.contributors)),
                    !.mediaTags = Upsert(@, obj.pk, Range(obj.fields.tags))]

RECURSIVE LoadData(_, _)
LoadData(db, objects) ==
    IF objects = <<>> THEN db ELSE LoadData(LoadObject(db, Head(objects)), Tail(objects))

(* _import_media: the files below media/ of the extracted tree, relative to it *)
ExtractedMediaFiles(extracted) ==
    {Tail(m.path) : m \in {x \in extracted : ~x.isdir /\ Len(x.path) > 1 /\ Head(x.path) = "media"}}

(* handle(): the outcome of the command on the file, in the order of its steps.  *)
(* log lists the steps that took effect.                                        *)
import_backup(file, flush, no_media, db, files) ==
    LET archive == ArchiveOf(file)
        fail(error, raised, log, d, f) ==
            [error |-> error, raised |-> raised, log |-> log, db |-> d, files |-> f]
        flushed == IF flush THEN Flush(db) ELSE db
        logF == IF flush THEN <<"extract", "flush">> ELSE <<"extract">>
        loaded == LoadData(flushed, archive.database)
        copy == ~no_media /\ Dir(<<"media">>) \in archive.members
    IN  IF file.content = NONE
        THEN fail("Backup file not found", "CommandError", <<>>, db, files)
        ELSE IF ~EndsWithTarGz(file.name)
        THEN fail("Invalid backup file format", "CommandError", <<>>, db, files)
        ELSE IF DamageOf(archive) = "tar"
        THEN fail("not a gzip file", "TarError", <<>>, db, files)
        ELSE IF \E member \in archive.members : IsUnsafe(member)
        THEN fail("Unsafe path in archive", "CommandError", <<>>, db, files)
        ELSE IF File(<<"metadata.json">>) \in archive.members /\ DamageOf(archive) = "metadata"
        THEN fail("Expecting value", "JSONDecodeError", <<"extract">>, db, files)
        ELSE IF File(<<"database.json">>) \notin archive.members
        THEN fail("database.json not found in backup archive", "CommandError", logF, flushed, files)
        ELSE IF DamageOf(archive) = "dump"
        THEN fail("Problem installing fixture", "DeserializationError", logF, flushed, files)
        ELSE [error |-> "", raised |-> "",
              log |-> logF \o <<"loaddata">> \o (IF copy THEN <<"media">> ELSE <<>>),
              db |-> loaded,
              files |-> IF copy THEN files \cup ExtractedMediaFiles(archive.members) ELSE files]

SetDb(db) ==
    /\ agents' = db.agents
    /\ media' = db.media
    /\ contributors' = db.contributors
    /\ tags' = db.tags
    /\ mediaTags' = db.mediaTags

ImportRecord(kind, file, flush, r) ==
    [Request(kind, 0, IF r.error = "" THEN 0 ELSE 1) EXCEPT
        !.error = r.error,
        !.raised = r.raised,
        !.log = r.log,
        !.file = file,
        !.flush = flush,
        !.differed = \/ media # ArchiveOf(file).origin.media
                     \/ contributors # ArchiveOf(file).origin.contributors,
        !.overwritten = {pk \in DOMAIN media \cap DOMAIN ArchiveOf(file).origin.media :
                            contributors[pk] # ArchiveOf(file).origin.contributors[pk]}]

(* the management command *)
ImportBackup(file, flush, no_media) ==
    /\ LET r == import_backup(file, flush, no_media, CurrentDb, mediaFiles)
       IN  /\ SetDb(r.db)
           /\ mediaFiles' = r.files
           /\ last' = ImportRecord("import_backup", file, flush, r)
    /\ UNCHANGED <<backups, resp, mtimes, clock, savedViews, token_cache>>

(* core/views.py: backup_import.  The upload of a POST is copied to a         *)
(* temporary file with the suffix .tar.gz and imported with --flush; the view  *)
(* catches OSError, CommandError and tarfile.TarError, any other exception     *)
(* leaves it and the request is answered with a server error.                  *)
Caught == {"OSError", "CommandError", "TarError"}

BackupImport(method, upload) ==
    /\ IF method # "POST"
       THEN /\ last' = [Request("backup_import", 0, 302) EXCEPT
                            !.method = method, !.to = "backup_manage"]
            /\ UNCHANGED <<agents, media, contributors, tags, mediaTags, mediaFiles>>
       ELSE IF upload = NONE \/ ~EndsWithTarGz(TheValue(upload).name)
       THEN /\ last' = [Request("backup_import", 0, 302) EXCEPT
                            !.method = method,
                            !.filename = IF upload = NONE THEN NONE ELSE Some(TheValue(upload).name),
                            !.to = "backup_manage",
                            !.error = IF upload = NONE THEN "No file selected"
                                      ELSE "Invalid file format. Use a .tar.gz file"]
            /\ UNCHANGED <<agents, media, contributors, tags, mediaTags, mediaFiles>>
       ELSE LET tmp == [name |-> <<"tmp", ".tar.gz">>, content |-> TheValue(upload).content]
                r == import_backup(tmp, TRUE, FALSE, CurrentDb, mediaFiles)
            IN  /\ SetDb(r.db)
                /\ mediaFiles' = r.files
                /\ last' = [ImportRecord("backup_import", tmp, TRUE, r) EXCEPT
                                !.method = method,
                                !.filename = Some(TheValue(upload).name),
                                !.status = IF r.error = "" \/ r.raised \in Caught THEN 302 ELSE 500,
                                !.to = IF r.error = "" THEN "home"
                                       ELSE IF r.raised \in Caught THEN "backup_manage" ELSE ""]
    /\ UNCHANGED <<backups, resp, mtimes, clock, savedViews, token_cache>>

----------------------------------------------------------------------------
(* The specification of backup and restore: the catalogue changes, backups   *)
(* are written under a fixed file name, and a backup is imported as written. *)

BackupPosts == {[BasePost EXCEPT !.contributors = c] : c \in {{}, DOMAIN agents}}

EditRequestB ==
    \E pk \in DOMAIN media \cup {0}, post \in BackupPosts :
        \E newPk \in NewMediaPks(pk), now \in Instants :
            MediaEdit(pk, post, newPk, <<>>, <<>>, now)

(* the catalogue at the start: empty, or one Media with its contributor *)
InitBackup ==
    /\ \/ agents = <<>> /\ media = <<>> /\ contributors = <<>> /\ mediaTags = <<>>
       \/ /\ agents = Upsert(<<>>, 1, <<"a">>)
          /\ media = Upsert(<<>>, 1, PlainRow("BOOK", "PLANNED", NONE))
          /\ contributors = Upsert(<<>>, 1, {1})
          /\ mediaTags = Upsert(<<>>, 1, {})
    /\ tags = <<>>
    /\ mediaFiles = {}
    /\ backups = <<>>
    /\ mtimes = <<>>
    /\ clock = 0
    /\ savedViews = <<>>
    /\ token_cache = NoToken
    /\ last = NoRequest
    /\ resp = NoResponse

ExportRequest == \E filename \in {<<"b">>} : ExportBackup(Some(filename), NONE, clock, clock)

ForeignMedia == {Dir(<<"media">>), Dir(<<"media", "covers">>), File(<<"media", "covers", "x.jpg">>)}

Additions ==
    {{}, {File(<<"/", "etc", "passwd">>)}, {File(<<"media", "..", "..", "x">>)}, ForeignMedia,
     ForeignMedia \cup {File(<<"..", "x">>)}}

Changed(archive, add, drop) ==
    [archive EXCEPT !.members = (@ \cup add) \ (IF drop THEN {File(<<"database.json">>)} ELSE {})]

(* the files at hand: each backup as written, with members added, or without its dump; *)
(* a backup under another name; and a name without a file                              *)
ArchiveFiles ==
    {[name |-> n, content |-> Some(Changed(backups[n], add, FALSE))] :
        n \in DOMAIN backups, add \in Additions}
    \cup {[name |-> n, content |-> Some(Changed(backups[n], {}, TRUE))] : n \in DOMAIN backups}

ImportFiles ==
    ArchiveFiles
    \cup {[name |-> <<"b", ".txt">>, content |-> Some(backups[n])] : n \in DOMAIN backups}
    \cup {[name |-> <<"missing", ".tar.gz">>, content |-> NONE]}

ImportCommand == \E file \in ImportFiles, flush \in BOOLEAN, no_media \in BOOLEAN :
    ImportBackup(file, flush, no_media)

Uploads == {NONE} \cup {Some(f) : f \in {x \in ImportFiles : x.content # NONE}}

ImportUpload == \E upload \in Uploads : BackupImport("POST", upload)

(* the backups as they were written, and a name without a file *)
WrittenFiles == {[name |-> n, content |-> Some(backups[n])] : n \in DOMAIN backups}

RestoreCommand ==
    \E file \in WrittenFiles \cup {[name |-> <<"missing", ".tar.gz">>, content |-> NONE]},
       flush \in BOOLEAN, no_media \in BOOLEAN :
        ImportBackup(file, flush, no_media)

RestoreUpload == \E upload \in {Some(f) : f \in WrittenFiles} : BackupImport("POST", upload)

NextBackup == EditRequestB \/ DeleteRequest \/ ExportRequest \/ RestoreCommand \/ RestoreUpload

SpecBackup == InitBackup /\ [][NextBackup]_vars

(* The specification of the stored years and scores: Media are added and   *)
(* edited with years and scores at and beyond the validators' limits, are   *)
(* deleted, and archives are imported: one written by create_backup from a  *)
(* catalogue the forms produced, one whose database.json was written        *)
(* elsewhere and holds a year and a score no form accepts.                  *)
YearPosts ==
    {[BasePost EXCEPT !.pub_year = y] :
        y \in {NONE, Some(MinPubYear - 1), Some(MinPubYear), Some(MaxPubYear), Some(MaxPubYear + 1)}}
    \cup {[BasePost EXCEPT !.score = sc] : sc \in {Some(0), Some(1), Some(10), Some(11)}}

EditYearRequest ==
    \E pk \in DOMAIN media \cup {0}, post \in YearPosts :
        \E newPk \in NewMediaPks(pk), now \in OneInstant :
            MediaEdit(pk, post, newPk, <<>>, <<>>, now)

OwnCatalogue ==
    [EmptyDb EXCEPT !.media = Upsert(<<>>, 1, [PlainRow("FILM", "COMPLETED", Some(10)) EXCEPT
                                                    !.pub_year = Some(MaxPubYear)]),
                    !.contributors = Upsert(<<>>, 1, {}),
                    !.mediaTags = Upsert(<<>>, 1, {})]

ForeignCatalogue ==
    [EmptyDb EXCEPT !.media = Upsert(<<>>, 1, [PlainRow("FILM", "COMPLETED", Some(11)) EXCEPT
                                                    !.pub_year = Some(MaxPubYear + 1)]),
                    !.contributors = Upsert(<<>>, 1, {}),
                    !.mediaTags = Upsert(<<>>, 1, {})]

YearFiles ==
    {[name |-> <<"own", ".tar.gz">>, content |-> Some(create_backup(OwnCatalogue, {}))],
     [name |-> <<"foreign", ".tar.gz">>, content |-> Some(create_backup(ForeignCatalogue, {}))]}

ImportYearsCommand ==
    \E file \in YearFiles, flush \in BOOLEAN, no_media \in BOOLEAN :
        ImportBackup(file, flush, no_media)

ImportYearsUpload == \E upload \in {Some(f) : f \in YearFiles} : BackupImport("POST", upload)

NextYears == EditYearRequest \/ DeleteRequest \/ ImportYearsCommand \/ ImportYearsUpload

SpecYears == InitBackup /\ [][NextYears]_vars

(* core/views.py: saved views.  A SavedView row holds its user, its name  *)
(* and the view state; a POST field that is absent is NONE.               *)

ValidScores ==
    {<<"1">>, <<"2">>, <<"3">>, <<"4">>, <<"5">>, <<"6">>, <<"7">>, <<"8">>, <<"9">>,
     <<"1", "0">>, <<"none">>}

valid_sorts == {"created_at", "updated_at", "review_date", "score"}

valid_view_modes == {"grid", "list"}

Get(value, default) == IF value = NONE THEN default ELSE TheValue(value)

validate_saved_view_data_of_lists(post_data) ==
    \/ \E i \in 1..Len(post_data.type) : post_data.type[i] \notin MediaTypeChoices
    \/ \E i \in 1..Len(post_data.status) : post_data.status[i] \notin StatusChoices
    \/ \E i \in 1..Len(post_data.score) : post_data.score[i] \notin ValidScores

(* validate_saved_view_data: TRUE when the list of errors is not empty *)
validate_saved_view_data(post_data) ==
    \/ \E i \in 1..Len(post_data.type) : post_data.type[i] \notin MediaTypeChoices
    \/ \E i \in 1..Len(post_data.status) : post_data.status[i] \notin StatusChoices
    \/ \E i \in 1..Len(post_data.score) : post_data.score[i] \notin ValidScores
    \/ \A f \in valid_sorts : LStripDash(Get(post_data.sort, <<"-", "review_date">>)) # <<f>>
    \/ Get(post_data.view_mode, "grid") \notin valid_view_modes
    \/ /\ Get(post_data.contributor, <<>>) # <<>>
       /\ \/ ParseInt(TheValue(post_data.contributor)) = NONE
          \/ TheValue(ParseInt(TheValue(post_data.contributor))) \notin DOMAIN agents
    \/ \E date_value \in {Strip(post_data.review_from), Strip(post_data.review_to)} :
            date_value # <<>> /\ ParsePartialDate(date_value) = NONE
    \/ \E field_value \in {post_data.has_review, post_data.has_cover} :
            field_value # "" /\ field_value \notin {"empty", "filled"}

(* view_data and the user: the row saved_view_save writes *)
ViewData(user, view_name, POST) ==
    [user |-> user,
     name |-> view_name,
     filter_types |-> POST.type,
     filter_statuses |-> POST.status,
     filter_scores |-> POST.score,
     filter_contributor_id |-> IF Get(POST.contributor, <<>>) = <<>> THEN NONE ELSE POST.contributor,
     filter_review_from |-> POST.review_from,
     filter_review_to |-> POST.review_to,
     filter_has_review |-> POST.has_review,
     filter_has_cover |-> POST.has_cover,
     sort |-> Get(POST.sort, <<"-", "review_date">>),
     view_mode |-> Get(POST.view_mode, "grid")]

ExistingViewsAnyUser(user, view_name) == {pk \in DOMAIN savedViews : savedViews[pk].name = view_name}

(* SavedView.objects.filter(user=request.user, name=view_name) *)
ExistingViews(user, view_name) ==
    {pk \in DOMAIN savedViews : savedViews[pk].user = user /\ savedViews[pk].name = view_name}

ViewRecord(view, user, method, pk, error) ==
    [Request(view, pk, 302) EXCEPT !.user = user, !.error = error, !.log = <<method>>]

(* saved_view_save, behind login_required; noted is what the history keeps *)
(* of the POST data                                                        *)
SaveView(user, method, POST, noted) ==
    /\ LET view_name == Strip(Get(POST.view_name, <<>>))
           existing == ExistingViews(user, view_name)
           record(pk, error) ==
               [ViewRecord("saved_view_save", user, method, pk, error) EXCEPT !.query = noted]
       IN  IF user = Anonymous
           THEN /\ last' = record(0, "login")
                /\ UNCHANGED savedViews
           ELSE IF method # "POST"
           THEN /\ last' = record(0, "")
                /\ UNCHANGED savedViews
           ELSE IF view_name = <<>>
           THEN /\ last' = record(0, "View name is required")
                /\ UNCHANGED savedViews
           ELSE IF validate_saved_view_data(POST)
           THEN /\ last' = record(0, "invalid")
                /\ UNCHANGED savedViews
           ELSE IF existing # {}
           THEN /\ savedViews' = [savedViews EXCEPT ![Min(existing)] = ViewData(user, view_name, POST)]
                /\ last' = [record(Min(existing), "") EXCEPT !.log = <<method, "updated">>]
           ELSE \E newPk \in ViewIds \ DOMAIN savedViews :
                /\ savedViews' = Upsert(savedViews, newPk, ViewData(user, view_name, POST))
                /\ last' = [record(newPk, "") EXCEPT !.log = <<method, "created">>]
    /\ resp' = NoResponse
    /\ UNCHANGED <<agents, media, contributors, tags, mediaTags, mediaFiles, backups,
                   mtimes, clock, token_cache>>

SavedViewSave(user, method, POST) == SaveView(user, method, POST, <<>>)

GetViewAnyUser(user, pk) == {pk} \cap DOMAIN savedViews

(* SavedView.objects.get(pk=pk, user=request.user) *)
GetView(user, pk) == {p \in {pk} \cap DOMAIN savedViews : savedViews[p].user = user}

(* saved_view_delete, behind login_required *)
SavedViewDelete(user, method, pk) ==
    /\ IF user = Anonymous
       THEN /\ last' = ViewRecord("saved_view_delete", user, method, pk, "login")
            /\ UNCHANGED savedViews
       ELSE IF method # "POST"
       THEN /\ last' = ViewRecord("saved_view_delete", user, method, pk, "")
            /\ UNCHANGED savedViews
       ELSE IF GetView(user, pk) = {}
       THEN /\ last' = ViewRecord("saved_view_delete", user, method, pk, "View not found")
            /\ UNCHANGED savedViews
       ELSE /\ savedViews' = Restrict(savedViews, DOMAIN savedViews \ {pk})
            /\ last' = [ViewRecord("saved_view_delete", user, method, pk, "") EXCEPT
                            !.log = <<method, "deleted">>]
    /\ resp' = NoResponse
    /\ UNCHANGED <<agents, media, contributors, tags, mediaTags, mediaFiles, backups,
                   mtimes, clock, token_cache>>

(* request.user.saved_views.all() *)
UserViews(user) == {pk \in DOMAIN savedViews : savedViews[pk].user = user}

(* core/context_processors.py: saved_views, run when a page is rendered *)
SavedViewsContext(user) ==
    /\ resp' = [kind |-> "context", user |-> user,
                saved_views |-> IF user # Anonymous THEN UserViews(user) ELSE {}]
    /\ last' = ViewRecord("saved_views", user, "GET", 0, "")
    /\ UNCHANGED <<agents, media, contributors, tags, mediaTags, mediaFiles, backups,
                   mtimes, clock, savedViews, token_cache>>

(* The specification of the saved views: the users and the anonymous user  *)
(* save, delete and list views.                                            *)
BaseViewPost ==
    [view_name |-> Some(<<"v">>), type |-> <<>>, status |-> <<>>, score |-> <<>>,
     contributor |-> NONE, review_from |-> <<>>, review_to |-> <<>>, has_review |-> "",
     has_cover |-> "", sort |-> NONE, view_mode |-> NONE]

ViewNames == {NONE, Some(<<" ">>), Some(<<"v">>), Some(<<" ", "v">>), Some(<<"w">>)}

ViewPosts ==
    {[BaseViewPost EXCEPT !.view_name = n] : n \in ViewNames}
    \cup {[BaseViewPost EXCEPT !.sort = so] : so \in {Some(<<"-", "score">>), Some(<<"title">>)}}
    \cup {[BaseViewPost EXCEPT !.type = <<"BOOK">>, !.view_mode = Some("list")],
          [BaseViewPost EXCEPT !.type = <<"NOPE">>],
          [BaseViewPost EXCEPT !.view_mode = Some("table")]}

Methods == {"GET", "POST"}

InitViews ==
    /\ agents = Upsert(<<>>, 1, <<"a">>)
    /\ media = Upsert(<<>>, 1, PlainRow("BOOK", "PLANNED", NONE))
    /\ contributors = Upsert(<<>>, 1, {1})
    /\ mediaTags = Upsert(<<>>, 1, {})
    /\ tags = <<>>
    /\ mediaFiles = {}
    /\ backups = <<>>
    /\ mtimes = <<>>
    /\ clock = 0
    /\ savedViews = <<>>
    /\ token_cache = NoToken
    /\ last = NoRequest
    /\ resp = NoResponse

SaveViewRequest ==
    \E user \in UserIds \cup {Anonymous}, method \in Methods, POST \in ViewPosts :
        SavedViewSave(user, method, POST)

DeleteViewRequest ==
    \E user \in UserIds \cup {Anonymous}, method \in Methods, pk \in ViewIds :
        SavedViewDelete(user, method, pk)

RenderPage == \E user \in UserIds \cup {Anonymous} : SavedViewsContext(user)

NextViews == SaveViewRequest \/ DeleteViewRequest \/ RenderPage

SpecViews == InitViews /\ [][NextViews]_vars

(* The saved views of one user under POST data of every kind: the fields   *)
(* one by one with a value the validation refuses, next to values it       *)
(* accepts.  Agent 1 exists, Agent 2 does not.                             *)
RefusedPosts ==
    {[BaseViewPost EXCEPT !.type = <<"BOOK", "NOPE">>],
     [BaseViewPost EXCEPT !.status = <<"NOPE">>],
     [BaseViewPost EXCEPT !.score = <<<<"1", "1">>>>],
     [BaseViewPost EXCEPT !.score = <<<<"1">>, <<"a">>>>],
     [BaseViewPost EXCEPT !.sort = Some(<<"title">>)],
     [BaseViewPost EXCEPT !.sort = Some(<<"-">>)],
     [BaseViewPost EXCEPT !.view_mode = Some("table")],
     [BaseViewPost EXCEPT !.contributor = Some(<<"a">>)],
     [BaseViewPost EXCEPT !.contributor = Some(<<"2">>)],
     [BaseViewPost EXCEPT !.review_from = <<"x">>],
     [BaseViewPost EXCEPT !.review_to = <<"2", "-", "0">>],
     [BaseViewPost EXCEPT !.has_review = "yes"],
     [BaseViewPost EXCEPT !.has_cover = "no"],
     [BaseViewPost EXCEPT !.view_name = NONE],
     [BaseViewPost EXCEPT !.view_name = Some(<<" ">>)]}

AcceptedPosts ==
    {BaseViewPost,
     [BaseViewPost EXCEPT !.type = <<"BOOK">>, !.score = <<<<"1", "0">>, <<"none">>>>,
                          !.contributor = Some(<<"1">>), !.review_from = <<"2", "-", "1">>,
                          !.has_review = "filled", !.sort = Some(<<"-", "score">>),
                          !.view_mode = Some("list")],
     [BaseViewPost EXCEPT !.view_name = Some(<<"w">>)]}

SaveAnyViewRequest ==
    \E method \in Methods, POST \in RefusedPosts \cup AcceptedPosts : SaveView(1, method, POST, <<POST>>)

DeleteOwnViewRequest == \E pk \in ViewIds : SavedViewDelete(1, "POST", pk)

NextRefusedViews == SaveAnyViewRequest \/ DeleteOwnViewRequest

SpecRefusedViews == InitViews /\ [][NextRefusedViews]_vars

(* core/services: the download of a poster or cover.  A URL is a sequence  *)
(* of tokens: the scheme with its "://", the pieces of the host, then the  *)
(* pieces of the path, the first of which starts with "/".                 *)

PathStarts == {"/t/p/", "/igdb/image/upload/", "/b/id/", "/release/", "/latest/", "/"}

RECURSIVE HostLength(_)
HostLength(rest) ==
    IF rest = <<>> \/ Head(rest) \in PathStarts THEN 0 ELSE 1 + HostLength(Tail(rest))

(* urllib.parse.urlparse: scheme, hostname and path of a URL *)
urlparse(url) ==
    IF url # <<>> /\ Head(url) \in {"https://", "http://"}
    THEN [scheme |-> IF Head(url) = "https://" THEN "https" ELSE "http",
          hostname |-> SubSeq(url, 2, 1 + HostLength(Tail(url))),
          path |-> SubSeq(url, 2 + HostLength(Tail(url)), Len(url))]
    ELSE [scheme |-> "", hostname |-> <<>>, path |-> url]

StartsWith(s, prefix) == Len(s) >= Len(prefix) /\ SubSeq(s, 1, Len(prefix)) = prefix

TmdbHostsWithMirror == {<<"image.tmdb.org">>, <<"image.tmdb.org", ".evil.example">>}

TMDB_ALLOWED_IMAGE_HOSTS == {<<"image.tmdb.org">>}

(* TMDB_POSTER_PATH_PATTERN: ^/t/p/w\d+/[a-zA-Z0-9]+\.[a-z]{3,4}$ *)
TMDB_POSTER_PATH_PATTERN(path) ==
    /\ Len(path) = 5
    /\ path[1] = "/t/p/"
    /\ path[2] \in {"w185", "w500"}
    /\ path[3] = "/"
    /\ path[4] \in {"abc"}
    /\ path[5] \in {".jpg", ".png"}

(* the addresses a host name can resolve to, and ipaddress's view of them *)
Addresses == {"104.16.0.1", "10.0.0.1", "169.254.169.254"}

is_private(ip) == ip \in {"10.0.0.1", "169.254.169.254"}

is_reserved(ip) == FALSE

is_loopback(ip) == FALSE

is_link_local(ip) == ip = "169.254.169.254"

(* _validate_resolved_ip; resolved = {} is socket.gaierror *)
validate_resolved_ip(resolved) ==
    /\ resolved # {}
    /\ \A ip \in resolved :
        ~(is_private(ip) \/ is_reserved(ip) \/ is_loopback(ip) \/ is_link_local(ip))

(* _validate_poster_url *)
validate_poster_url(poster_url, resolved) ==
    /\ urlparse(poster_url).scheme = "https"
    /\ urlparse(poster_url).hostname \in TMDB_ALLOWED_IMAGE_HOSTS
    /\ TMDB_POSTER_PATH_PATTERN(urlparse(poster_url).path)
    /\ validate_resolved_ip(resolved)

IGDB_IMAGE_BASE_URL == <<"https://", "images.igdb.com", "/igdb/image/upload/">>

(* OPENLIBRARY_COVER_PATTERN:                                              *)
(* ^https://covers\.openlibrary\.org/[baw]/(?:id|olid|isbn)/[^/]+\.jpg$    *)
OPENLIBRARY_COVER_PATTERN(cover_url) ==
    /\ Len(cover_url) = 5
    /\ SubSeq(cover_url, 1, 2) = <<"https://", "covers.openlibrary.org">>
    /\ cover_url[3] \in {"/b/id/"}
    /\ cover_url[4] \notin PathStarts
    /\ cover_url[5] = ".jpg"

(* COVERART_PATTERN: ^https://coverartarchive\.org/release/[a-f0-9-]+/ *)
COVERART_PATTERN(cover_url) ==
    /\ Len(cover_url) >= 5
    /\ SubSeq(cover_url, 1, 3) = <<"https://", "coverartarchive.org", "/release/">>
    /\ cover_url[4] \in {"ab12"}
    /\ cover_url[5] = "/"

Clients == {"tmdb", "igdb", "openlibrary", "musicbrainz"}

(* the check each client's download makes before requests.get *)
ValidCoverUrl(client, cover_url, resolved) ==
    /\ cover_url # <<>>
    /\ CASE client = "tmdb" -> validate_poster_url(cover_url, resolved)
         [] client = "igdb" -> StartsWith(cover_url, IGDB_IMAGE_BASE_URL)
         [] client = "openlibrary" -> OPENLIBRARY_COVER_PATTERN(cover_url)
         [] client = "musicbrainz" -> COVERART_PATTERN(cover_url)

(* requests.get(..., allow_redirects=...): only the TMDB client sets False *)
allow_redirects(client) == client # "tmdb"

(* what the server answers: a status, with a small or a full body *)
Responses == {"200", "200 small", "302", "404", "500", "timeout"}

FinalResponses == Responses \ {"302"}

(* the bytes the download returns for the last response *)
Content(client, response) ==
    CASE client \in {"tmdb", "igdb"} ->
            IF response \in {"200", "200 small"} THEN Some("content") ELSE NONE
      [] client \in {"openlibrary", "musicbrainz"} ->
            IF response = "200" THEN Some("content") ELSE NONE

(* download_poster (TMDB) and download_cover (IGDB, OpenLibrary,          *)
(* MusicBrainz): the server's first answer is response; a redirect that is *)
(* followed goes to location, which answers final                         *)
Download(client, cover_url, resolved, response, location, final) ==
    /\ last' = [Request("download", 0, 0) EXCEPT
                    !.client = client,
                    !.url = cover_url,
                    !.dns = IF client = "tmdb" THEN resolved ELSE {},
                    !.http = IF ~ValidCoverUrl(client, cover_url, resolved) THEN <<>>
                             ELSE IF response = "302" /\ allow_redirects(client)
                                  THEN <<cover_url, location>>
                                  ELSE <<cover_url>>,
                    !.result = IF ~ValidCoverUrl(client, cover_url, resolved) THEN NONE
                               ELSE IF response = "302" /\ allow_redirects(client)
                                    THEN Content(client, final)
                                    ELSE Content(client, response)]
    /\ UNCHANGED <<agents, media, contributors, tags, mediaTags, mediaFiles, backups, resp,
                   mtimes, clock, savedViews, token_cache>>

(* core/services: the search methods search_multi (TMDB), search_games     *)
(* (IGDB), search_books (OpenLibrary) and search_releases (MusicBrainz),   *)
(* and the views tmdb_search_htmx, igdb_search_htmx, openlibrary_search_htmx *)
(* and musicbrainz_search_htmx of core/views.py                            *)
MIN_QUERY_LENGTH == 2

MIN_SEARCH_QUERY_LENGTH == 2

MAX_SEARCH_RESULTS == 15

(* the endpoint each search method requests *)
Endpoint(client) ==
    CASE client = "tmdb" -> "search/multi"
      [] client = "igdb" -> "games"
      [] client = "openlibrary" -> "search.json"
      [] client = "musicbrainz" -> "release"

(* what the API answers: the results, or NONE for a RequestException *)
Answers == {NONE, Some(<<>>), Some(<<"r1", "r2">>)}

SearchWhateverTheLength(client, query, answer) ==
    [http |-> <<Endpoint(client)>>, results |-> answer]

(* if not query or len(query) < MIN_QUERY_LENGTH: return [] *)
search(client, query, answer) ==
    IF query = <<>> \/ Len(query) < MIN_QUERY_LENGTH
    THEN [http |-> <<>>, results |-> Some(<<>>)]
    ELSE [http |-> <<Endpoint(client)>>, results |-> answer]

(* the method called for itself *)
ClientSearch(client, query, answer) ==
    /\ last' = [Request("search", 0, 0) EXCEPT
                    !.client = client, !.query = query,
                    !.http = search(client, query, answer).http,
                    !.result = search(client, query, answer).results]
    /\ UNCHANGED <<agents, media, contributors, tags, mediaTags, mediaFiles, backups, resp,
                   mtimes, clock, savedViews, token_cache>>

(* len(query) < MIN_SEARCH_QUERY_LENGTH *)
TooShort(query) == Len(query) < MIN_SEARCH_QUERY_LENGTH

(* get_tmdb_client and get_igdb_client give None without credentials *)
NeedsCredentials(client) == client \in {"tmdb", "igdb"}

(* the four views: results in the context, and the error shown if any *)
SearchHtmx(client, q, configured, answer) ==
    /\ LET query == Strip(q)
           called == search(client, query, answer)
       IN  last' = [Request("search_htmx", 0, 200) EXCEPT
                        !.client = client, !.query = q,
                        !.http = IF TooShort(query) \/ (NeedsCredentials(client) /\ ~configured)
                                 THEN <<>> ELSE called.http,
                        !.result = IF TooShort(query) THEN Some(<<>>)
                                   ELSE IF NeedsCredentials(client) /\ ~configured THEN Some(<<>>)
                                   ELSE IF called.results = NONE THEN Some(<<>>)
                                   ELSE Some(Truncate(TheValue(called.results), MAX_SEARCH_RESULTS)),
                        !.error = IF TooShort(query) THEN ""
                                  ELSE IF NeedsCredentials(client) /\ ~configured THEN "not configured"
                                  ELSE IF called.results = NONE THEN "Search failed"
                                  ELSE ""]
    /\ UNCHANGED <<agents, media, contributors, tags, mediaTags, mediaFiles, backups, resp,
                   mtimes, clock, savedViews, token_cache>>

(* The specification of the metadata clients: downloads of any URL by any  *)
(* client, against any resolution of the host and any answer; searches for *)
(* short and long queries, through the views and by the methods.           *)
SearchQueries ==
    {<<>>, <<"a">>, <<" ", "a">>, <<" ", " ">>, <<"a", "b">>, <<" ", "a", "b">>, <<"a", " ", " ">>}

SearchRequest ==
    \E client \in Clients, q \in SearchQueries, configured \in BOOLEAN, answer \in Answers :
        SearchHtmx(client, q, configured, answer)

SearchMethodCall ==
    \E client \in Clients, query \in SearchQueries, answer \in Answers :
        ClientSearch(client, query, answer)

TmdbPoster == <<"https://", "image.tmdb.org", "/t/p/", "w500", "/", "abc", ".jpg">>

IgdbCover == <<"https://", "images.igdb.com", "/igdb/image/upload/", "t_cover_big", "/", "co1", ".jpg">>

OpenLibraryCover == <<"https://", "covers.openlibrary.org", "/b/id/", "123-M", ".jpg">>

CoverArt == <<"https://", "coverartarchive.org", "/release/", "ab12", "/", "front-500">>

InternalUrl == <<"http://", "169.254.169.254", "/latest/">>

(* the same URL on a host whose name only starts with the image host's *)
OnLookalikeHost(url) == <<url[1], url[2], ".evil.example">> \o SubSeq(url, 3, Len(url))

(* the same URL over http *)
OverHttp(url) == <<"http://">> \o Tail(url)

CoverUrls ==
    {<<>>, InternalUrl, TmdbPoster, IgdbCover, OpenLibraryCover, CoverArt,
     <<"https://", "image.tmdb.org", "/t/p/", "original", "/", "abc", ".jpg">>}
    \cup {OnLookalikeHost(u) : u \in {TmdbPoster, IgdbCover, OpenLibraryCover, CoverArt}}
    \cup {OverHttp(u) : u \in {TmdbPoster, IgdbCover, OpenLibraryCover, CoverArt}}

Resolutions == SUBSET Addresses

(* where a redirect leads, and what is answered there *)
Locations(response) == IF response = "302" THEN {InternalUrl, IgdbCover} ELSE {<<>>}

Finals(response) == IF response = "302" THEN FinalResponses ELSE {response}

DownloadCover ==
    \E client \in Clients, cover_url \in CoverUrls, resolved \in Resolutions,
       response \in Responses :
        \E location \in Locations(response), final \in Finals(response) :
            Download(client, cover_url, resolved, response, location, final)

InitClients ==
    /\ agents = <<>>
    /\ media = <<>>
    /\ contributors = <<>>
    /\ mediaTags = <<>>
    /\ tags = <<>>
    /\ mediaFiles = {}
    /\ backups = <<>>
    /\ mtimes = <<>>
    /\ clock = 0
    /\ savedViews = <<>>
    /\ token_cache = NoToken
    /\ last = NoRequest
    /\ resp = NoResponse

NextClients == DownloadCover \/ SearchRequest \/ SearchMethodCall

SpecClients == InitClients /\ [][NextClients]_vars

(* core/services/igdb.py: IGDBClient._get_access_token over the module's   *)
(* _token_cache.  clock is time.time() in seconds.  The token request is    *)
(* answered after took seconds with a token and perhaps expires_in, or it   *)
(* fails with a RequestException: no connection, or a status that           *)
(* raise_for_status refuses.                                                *)
TOKEN_BUFFER == 60

DEFAULT_EXPIRES_IN == 3600

TWITCH_AUTH_URL == <<"https", "id.twitch.tv", "oauth2", "token">>

Tokens == 1..MaxToken

TokenResponses ==
    {[status |-> "ConnectionError"], [status |-> "401"]}
    \cup {[status |-> "200", access_token |-> t, expires_in |-> e] :
            t \in Tokens, e \in {NONE, Some(61), Some(120)}}

CachedWithoutBuffer(cache, now) == cache.access_token # NONE /\ cache.expires_at > now

(* _token_cache["access_token"] and _token_cache["expires_at"] > time.time() + 60 *)
Cached(cache, now) == cache.access_token # NONE /\ cache.expires_at > now + TOKEN_BUFFER

GetAccessToken(response, took) ==
    /\ IF Cached(token_cache, clock)
       THEN /\ last' = [Request("_get_access_token", 0, 0) EXCEPT !.result = token_cache.access_token]
            /\ UNCHANGED <<token_cache, clock>>
       ELSE /\ clock + took <= MaxSeconds
            /\ clock' = clock + took
            /\ IF response.status = "200"
               THEN /\ token_cache' =
                        [access_token |-> Some(response.access_token),
                         expires_at |-> clock' + (IF response.expires_in = NONE THEN DEFAULT_EXPIRES_IN
                                                  ELSE TheValue(response.expires_in))]
                    /\ last' = [Request("_get_access_token", 0, 0) EXCEPT
                                    !.http = <<TWITCH_AUTH_URL>>,
                                    !.query = <<response>>,
                                    !.result = Some(response.access_token)]
               ELSE /\ last' = [Request("_get_access_token", 0, 1) EXCEPT
                                    !.http = <<TWITCH_AUTH_URL>>,
                                    !.query = <<response>>,
                                    !.raised = "IGDBError",
                                    !.error = "Failed to authenticate with Twitch"]
                    /\ UNCHANGED token_cache
    /\ UNCHANGED <<agents, media, contributors, tags, mediaTags, mediaFiles, backups, resp,
                   mtimes, savedViews>>

GetAccessTokenCall == \E response \in TokenResponses, took \in {0, 1} : GetAccessToken(response, took)

(* time passes between two calls *)
TimePasses ==
    /\ \E seconds \in {1, 59} :
            /\ clock + seconds <= MaxSeconds
            /\ clock' = clock + seconds
    /\ last' = NoRequest
    /\ UNCHANGED <<agents, media, contributors, tags, mediaTags, mediaFiles, backups, resp,
                   mtimes, savedViews, token_cache>>

NextToken == GetAccessTokenCall \/ TimePasses

SpecToken == InitClients /\ [][NextToken]_vars

(* core/views.py: _download_cover and _handle_import_cover inside a         *)
(* media_add POST with import_cover_url.  configured holds the clients      *)
(* whose factory returns an object: get_tmdb_client and get_igdb_client     *)
(* return None without their credentials.                                   *)

(* the download methods each client class defines *)
DownloadMethods(client) == IF client = "tmdb" THEN {"download_poster"} ELSE {"download_cover"}

(* "host" in cover_url *)
InUrl(host, cover_url) == \E i \in DOMAIN cover_url : cover_url[i] = host

(* the branch of the if / elif chain the URL takes *)
SourceOf(cover_url) ==
    IF InUrl("image.tmdb.org", cover_url) THEN "tmdb"
    ELSE IF InUrl("images.igdb.com", cover_url) THEN "igdb"
    ELSE IF InUrl("covers.openlibrary.org", cover_url) THEN "openlibrary"
    ELSE IF InUrl("coverartarchive.org", cover_url) THEN "musicbrainz"
    ELSE ""

(* the bytes a client's download returns, or NONE *)
ClientDownload(client, cover_url, resolved, response, final) ==
    IF ~ValidCoverUrl(client, cover_url, resolved) THEN NONE
    ELSE IF response = "302" /\ allow_redirects(client) THEN Content(client, final)
    ELSE Content(client, response)

(* _download_cover: every branch calls client.download_cover(cover_url) *)
ViewDownloadCover(cover_url, configured, resolved, response, final) ==
    LET client == SourceOf(cover_url)
        nothing == [raised |-> "", bytes |-> NONE, client |-> client, called |-> FALSE]
    IN  IF cover_url = <<>> \/ client = "" THEN nothing
        ELSE IF client \in {"tmdb", "igdb"} /\ client \notin configured THEN nothing
        ELSE IF "download_cover" \notin DownloadMethods(client)
        THEN [nothing EXCEPT !.raised = "AttributeError", !.called = TRUE]
        ELSE [nothing EXCEPT !.bytes = ClientDownload(client, cover_url, resolved, response, final),
                             !.called = TRUE]

(* media_edit without pk, a POST with a valid form: _handle_import_cover,   *)
(* then instance.save() and form.save_m2m()                                 *)
MediaAddWithImportCover(import_cover_url, upload, configured, resolved, response, final, newPk) ==
    LET post_data == [BasePost EXCEPT !.cover = upload]
        downloads == import_cover_url # <<>> /\ upload = NONE
        r == IF downloads
             THEN ViewDownloadCover(import_cover_url, configured, resolved, response, final)
             ELSE [raised |-> "", bytes |-> NONE, client |-> "", called |-> FALSE]
        formed == FormInstance(post_data, NONE, 2000)
        instance == IF r.bytes # NONE THEN [formed EXCEPT !.cover = Some(CoverPath("T.jpg"))] ELSE formed
        record == [Request("media_edit", newPk, 302) EXCEPT
                       !.log = IF downloads THEN <<"_download_cover">> ELSE <<>>,
                       !.url = import_cover_url,
                       !.query = <<configured>>,
                       !.client = r.client,
                       !.http = IF r.called THEN <<import_cover_url>> ELSE <<>>,
                       !.result = r.bytes,
                       !.raised = r.raised]
    IN  /\ newPk \in MediaIds \ DOMAIN media
        /\ FormIsValid(post_data, agents, tags)
        /\ IF r.raised # ""
           THEN /\ last' = [record EXCEPT !.status = 500, !.pk = 0]
                /\ UNCHANGED <<media, contributors, mediaTags, mediaFiles>>
           ELSE /\ media' = Upsert(media, newPk, instance)
                /\ contributors' = Upsert(contributors, newPk, {})
                /\ mediaTags' = Upsert(mediaTags, newPk, {})
                /\ mediaFiles' = mediaFiles \cup instance.cover
                /\ last' = record
        /\ UNCHANGED <<agents, tags, backups, resp, mtimes, clock, savedViews, token_cache>>

ImportCoverUrls ==
    {<<>>, InternalUrl, TmdbPoster, IgdbCover, OpenLibraryCover, CoverArt,
     OnLookalikeHost(OpenLibraryCover), OverHttp(IgdbCover)}

ImportCoverRequest ==
    \E import_cover_url \in ImportCoverUrls, upload \in {NONE, Some("c.jpg")},
       configured \in SUBSET {"tmdb", "igdb"}, response \in {"200", "404", "timeout"} :
        /\ MediaIds \ DOMAIN media # {}
        /\ MediaAddWithImportCover(import_cover_url, upload, configured, {"104.16.0.1"}, response,
                                   response, Min(MediaIds \ DOMAIN media))

NextImportCover == ImportCoverRequest \/ DeleteRequest

SpecImportCover == InitClients /\ [][NextImportCover]_vars

(* The specification of backup rotation: export_backup and auto_backup run  *)
(* one after the other, each at a later instant, into a directory that may  *)
(* hold a copied backup and a file of another name.                         *)
CopiedBackup == <<"datakult_backup_", "copy", ".tar.gz">>

OtherFile == <<"notes", ".tar.gz">>

(* the modification time the file system gives a file written at now: the  *)
(* instant, or the instant at a coarser resolution                          *)
Mtimes(now) == {now, now - (now % 2)}

InitRotate ==
    /\ agents = <<>> /\ media = <<>> /\ contributors = <<>> /\ tags = <<>> /\ mediaTags = <<>>
    /\ mediaFiles = {}
    /\ \E D \in SUBSET {CopiedBackup, OtherFile} :
        /\ backups = [n \in D |-> NoArchive]
        /\ mtimes \in [D -> {0, MaxTime + 1}]
    /\ clock = 0
    /\ savedViews = <<>>
    /\ token_cache = NoToken
    /\ last = NoRequest
    /\ resp = NoResponse

KeepOptions == {NONE, Some(0), Some(1), Some(2)}

KeepCounts == {-1, 0, 1, 2, 7}

ExportRun ==
    \E filename \in {NONE, Some(<<"b">>)}, keep \in KeepOptions, now \in (clock + 1)..MaxTime :
        \E mtime \in Mtimes(now) : ExportBackup(filename, keep, now, mtime)

AutoBackupRun ==
    \E keep_count \in KeepCounts, now \in (clock + 1)..MaxTime :
        \E mtime \in Mtimes(now) : AutoBackup(keep_count, now, mtime)

NextRotate == ExportRun \/ AutoBackupRun

SpecRotate == InitRotate /\ [][NextRotate]_vars

(* The specification of the import of any file: a backup as written or with  *)
(* members added or without its dump, under a right or a wrong name, or no   *)
(* file; the catalogue gains and loses Media in between.                     *)
AddRequest ==
    \E newPk \in NewMediaPks(0), now \in OneInstant : MediaEdit(0, BasePost, newPk, <<>>, <<>>, now)

NextImport == AddRequest \/ DeleteRequest \/ ExportRequest \/ ImportCommand \/ ImportUpload

SpecImport == InitBackup /\ [][NextImport]_vars

(* Imports that fail: an archive written from a catalogue of one Media is   *)
(* imported by the command or uploaded to backup_import as it is, without   *)
(* its database.json, with an unsafe member, with bytes that do not read,   *)
(* or under a name that does not end in .tar.gz.                            *)
GoodArchive == create_backup(OwnCatalogue, {})

UploadContents ==
    {GoodArchive, Changed(GoodArchive, {}, TRUE), Changed(GoodArchive, {File(<<"..", "x">>)}, FALSE)}
    \cup {Damaged(GoodArchive, damage) : damage \in {"tar", "metadata", "dump"}}

UploadFiles ==
    {[name |-> name, content |-> Some(content)] :
        name \in {<<"b", ".tar.gz">>, <<"b", ".txt">>}, content \in UploadContents}

UploadRequest ==
    \E method \in {"GET", "POST"}, upload \in {NONE} \cup {Some(f) : f \in UploadFiles} :
        BackupImport(method, upload)

ImportUploadFilesCommand ==
    \E file \in UploadFiles \cup {[name |-> <<"missing", ".tar.gz">>, content |-> NONE]},
       flush \in BOOLEAN :
        ImportBackup(file, flush, FALSE)

NextFailedImport == AddRequest \/ DeleteRequest \/ UploadRequest \/ ImportUploadFilesCommand

SpecFailedImport == InitBackup /\ [][NextFailedImport]_vars

(* core/views.py: media_add POSTs that are served at the same time, each    *)
(* with one new contributor name.  _get_or_create_safe is taken query by    *)
(* query: filter(name=).first(), then inside get_or_create the get() and    *)
(* the create(); Agent.name carries no unique constraint (models.py), so    *)
(* create() never raises IntegrityError.  Only IntegrityError is caught:    *)
(* the MultipleObjectsReturned of get() leaves the view.  Each request then *)
(* saves its form: the Media and its link to the Agent found or made.       *)
Requests == MediaIds

NewRequest(name) == [pc |-> "filter", name |-> name, obj |-> NONE, pk |-> 0, status |-> 0]

InFlight(requests) == [kind |-> "concurrent", requests |-> requests]

NextPk(tbl) == IF DOMAIN tbl = {} THEN 1 ELSE (CHOOSE k \in DOMAIN tbl : \A j \in DOMAIN tbl : j <= k) + 1

Moves(r, request) ==
    /\ resp' = [resp EXCEPT !.requests[r] = request]
    /\ UNCHANGED <<tags, mediaFiles, backups, mtimes, clock, savedViews, token_cache>>

FilterFirst(r) ==
    LET q == resp.requests[r]
        clean_name == CleanName(q.name)
        existing == WithName(agents, clean_name)
    IN  /\ q.pc = "filter"
        /\ Moves(r, IF clean_name = <<>> THEN [q EXCEPT !.pc = "form"]
                    ELSE IF existing # {} THEN [q EXCEPT !.pc = "form", !.obj = Some(Min(existing))]
                    ELSE [q EXCEPT !.pc = "get"])
        /\ UNCHANGED <<agents, media, contributors, mediaTags, last>>

GetOfGetOrCreate(r) ==
    LET q == resp.requests[r]
        found == WithName(agents, CleanName(q.name))
    IN  /\ q.pc = "get"
        /\ Moves(r, IF found = {} THEN [q EXCEPT !.pc = "create"]
                    ELSE IF Cardinality(found) = 1 THEN [q EXCEPT !.pc = "form", !.obj = found]
                    ELSE [q EXCEPT !.pc = "done", !.status = 500])
        /\ UNCHANGED <<agents, media, contributors, mediaTags, last>>

CreateOfGetOrCreate(r) ==
    LET q == resp.requests[r]
    IN  /\ q.pc = "create"
        /\ NextPk(agents) \in AgentIds
        /\ agents' = Upsert(agents, NextPk(agents), CleanName(q.name))
        /\ Moves(r, [q EXCEPT !.pc = "form", !.obj = Some(NextPk(agents))])
        /\ UNCHANGED <<media, contributors, mediaTags, last>>

SaveForm(r) ==
    LET q == resp.requests[r]
        post_data == [BasePost EXCEPT !.contributors = q.obj]
        id == NextPk(media)
    IN  /\ q.pc = "form"
        /\ id \in MediaIds
        /\ FormIsValid(post_data, agents, tags)
        /\ media' = Upsert(media, id, FormInstance(post_data, NONE, 2000))
        /\ contributors' = Upsert(contributors, id, post_data.contributors)
        /\ mediaTags' = Upsert(mediaTags, id, post_data.tags)
        /\ last' = [Request("media_edit", id, 302) EXCEPT !.mid = contributors']
        /\ Moves(r, [q EXCEPT !.pc = "done", !.pk = id, !.status = 302])
        /\ UNCHANGED agents

RaceNames == {<<"a">>, <<" ", "a">>, <<"b">>}

InitRace ==
    /\ agents \in {<<>>, Upsert(<<>>, 1, <<"a">>)}
    /\ media = <<>>
    /\ contributors = <<>>
    /\ mediaTags = <<>>
    /\ tags = <<>>
    /\ mediaFiles = {}
    /\ backups = <<>>
    /\ mtimes = <<>>
    /\ clock = 0
    /\ savedViews = <<>>
    /\ token_cache = NoToken
    /\ last = NoRequest
    /\ resp \in {InFlight([r \in Requests |-> NewRequest(names[r])]) : names \in [Requests -> RaceNames]}

NextRace ==
    \E r \in Requests :
        FilterFirst(r) \/ GetOfGetOrCreate(r) \/ CreateOfGetOrCreate(r) \/ SaveForm(r)

SpecRace == InitRace /\ [][NextRace]_vars

(* core/utils.py: delete_orphan_agents_by_ids called on a catalogue that   *)
(* holds Agents with and without a Media; the history keeps the ids given. *)
InitCleanup ==
    /\ \E existing \in SUBSET AgentIds : \E linked \in SUBSET existing :
          /\ agents = [a \in existing |-> <<<<"a", "b", "c", "d">>[a]>>]
          /\ contributors = Upsert(<<>>, 1, linked)
    /\ media = Upsert(<<>>, 1, PlainRow("BOOK", "PLANNED", NONE))
    /\ mediaTags = Upsert(<<>>, 1, {})
    /\ tags = <<>>
    /\ mediaFiles = {}
    /\ backups = <<>>
    /\ mtimes = <<>>
    /\ clock = 0
    /\ savedViews = <<>>
    /\ token_cache = NoToken
    /\ last = NoRequest
    /\ resp = NoResponse

CleanupCallWithIds ==
    \E agent_ids \in SeqsUpTo(OptionalIds, 2) : DeleteOrphanAgents(agent_ids, agent_ids)

NextCleanup == CleanupCallWithIds \/ AddRequest \/ DeleteRequest

SpecCleanup == InitCleanup /\ [][NextCleanup]_vars

(* core/views.py and core/htmx_validation.py: the decorators of the views, *)
(* the outermost first.  Every view of core/views.py carries               *)
(* login_required alone; validate_media_field carries require_POST around  *)
(* login_required.                                                         *)
Views ==
    {"index", "media_detail", "media_edit", "media_import", "media_delete", "load_more_media",
     "agent_search_htmx", "agent_select_htmx", "tag_search_htmx", "tag_select_htmx",
     "tmdb_search_htmx", "igdb_search_htmx", "openlibrary_search_htmx",
     "musicbrainz_search_htmx", "media_review_clamped_htmx", "media_review_full_htmx",
     "backup_export", "backup_import", "backup_manage", "saved_view_save",
     "saved_view_delete", "validate_media_field"}

DecoratorsWithoutLogin(view) ==
    IF view = "validate_media_field" THEN <<"require_POST">> ELSE <<"login_required">>

Decorators(view) ==
    IF view = "validate_media_field" THEN <<"require_POST", "login_required">>
    ELSE <<"login_required">>

(* the answer of a decorated view: the first decorator that refuses the     *)
(* request answers it, otherwise the body of the view runs                  *)
RECURSIVE Decorated(_, _, _)
Decorated(decorators, user, method) ==
    IF decorators = <<>> THEN [status |-> 200, error |-> "", log |-> <<"body">>]
    ELSE IF Head(decorators) = "require_POST" /\ method # "POST"
    THEN [status |-> 405, error |-> "Method Not Allowed", log |-> <<>>]
    ELSE IF Head(decorators) = "login_required" /\ user = Anonymous
    THEN [status |-> 302, error |-> "login", log |-> <<>>]
    ELSE Decorated(Tail(decorators), user, method)

(* a request reaches a view; the body of a view that runs is the action of *)
(* that view, taken after it                                               *)
Dispatch(view, user, method) ==
    /\ last' = [Request("dispatch", 0, Decorated(Decorators(view), user, method).status) EXCEPT
                    !.user = user,
                    !.filename = Some(<<view, method>>),
                    !.error = Decorated(Decorators(view), user, method).error,
                    !.log = Decorated(Decorators(view), user, method).log]
    /\ UNCHANGED <<agents, media, contributors, tags, mediaTags, mediaFiles, backups, resp,
                   mtimes, clock, savedViews, token_cache>>

(* The specification of the login wall: requests of any method to any view  *)
(* by the anonymous user and by a logged-in one, over a catalogue that      *)
(* changes when the body of media_edit or media_delete runs.                *)
HttpMethods == {"GET", "HEAD", "POST", "PUT", "DELETE"}

AnyRequest ==
    \E view \in Views, user \in {Anonymous, 1}, method \in HttpMethods :
        Dispatch(view, user, method)

BodyOfMediaEdit ==
    /\ last.kind = "dispatch" /\ last.log = <<"body">>
    /\ last.filename = Some(<<"media_edit", "POST">>)
    /\ AddRequest

BodyOfMediaDelete ==
    /\ last.kind = "dispatch" /\ last.log = <<"body">>
    /\ last.filename = Some(<<"media_delete", "POST">>)
    /\ DeleteRequest

NextLogin == AnyRequest \/ BodyOfMediaEdit \/ BodyOfMediaDelete

SpecLogin == InitBackup /\ [][NextLogin]_vars

----------------------------------------------------------------------------
(* Orphan cleanup *)

Completed(kinds) == last.kind \in kinds /\ last.status = 302

(* C1: after any sequence of media_edit and media_delete requests no Agent *)
(* exists that is linked to zero Media.                                    *)
C1_NoOrphanAgent == \A a \in DOMAIN agents : a \in Linked(contributors)

(* C2: when a media_delete or a successful media_edit completes, every     *)
(* Agent that was a contributor of that Media before the request and is    *)
(* linked to no Media after it has been deleted.                           *)
C2_RemovedOrphansDeleted ==
    Completed({"media_edit", "media_delete"}) =>
        \A a \in last.before : a \notin Linked(contributors) => a \notin DOMAIN agents

C2_Witness ==
    /\ Completed({"media_edit"})
    /\ \E a \in last.before : a \notin DOMAIN agents
    /\ \E a \in last.before : a \in Linked(contributors)

(* C3: the cleanup never deletes an Agent that is still linked: every Agent *)
(* with a Media link at the time of the cleanup still exists afterwards     *)
(* with all its links.                                                      *)
C3_LinkedAgentsKept ==
    \A m \in DOMAIN last.mid : \A a \in last.mid[m] :
        a \in DOMAIN agents /\ m \in DOMAIN contributors /\ a \in contributors[m]

C3_Witness ==
    /\ last.kind = "media_delete"
    /\ last.deleted > 0
    /\ last.before \cap Linked(last.mid) # {}

(* C22: delete_orphan_agents_by_ids(ids) returns the number of Agents it    *)
(* deleted, which is the number of distinct ids that are not None and name *)
(* an existing Agent without a linked Media; None, repeated and unknown    *)
(* ids add nothing, and no Agent outside the input is deleted.             *)
C22_CountOfDeletedOrphans ==
    [][last'.kind = "delete_orphan_agents_by_ids" =>
          LET given == {a \in AgentIds : \E i \in DOMAIN last'.query : a \in last'.query[i]}
              orphans == {a \in given : /\ a \in DOMAIN agents
                                       /\ \A m \in DOMAIN contributors : a \notin contributors[m]}
          IN  /\ last'.deleted = Cardinality(orphans)
              /\ DOMAIN agents' = DOMAIN agents \ orphans
              /\ Cardinality(DOMAIN agents) - Cardinality(DOMAIN agents') = last'.deleted
              /\ \A a \in DOMAIN agents' : agents'[a] = agents[a]]_vars

(* an orphan named twice in the input while another Agent exists: the call *)
(* has answered 1 and the other Agent is still there                       *)
C22_Witness ==
    /\ last.kind = "delete_orphan_agents_by_ids"
    /\ Len(last.query) = 2
    /\ last.query[1] = last.query[2]
    /\ last.query[1] # NONE
    /\ last.deleted = 1
    /\ DOMAIN agents # {}

(* C4: after a media_edit that removes a Tag from a Media, or a            *)
(* media_delete, every Tag left with zero linked Media is deleted.         *)
C4_OrphanTagsDeleted ==
    Completed({"media_edit", "media_delete"}) =>
        \A t \in last.beforeTags : t \notin Linked(mediaTags) => t \notin DOMAIN tags

----------------------------------------------------------------------------
(* Filtering and sorting *)

Answered == resp.kind = "index" /\ resp.status = 200

(* a request value stands for a score: 'none' for an unset one, a number for itself *)
ScoreEquals(value, score) ==
    \/ value = <<"none">> /\ score = NONE
    \/ \E v \in score : ParseInt(value) = Some(v)

WellFormedScore(value) == value = <<"none">> \/ ParseInt(value) # NONE

TypeSatisfied(f, m) == f.type = <<>> \/ \E i \in 1..Len(f.type) : media[m].media_type = f.type[i]

StatusSatisfied(f, m) == f.status = <<>> \/ \E i \in 1..Len(f.status) : media[m].status = f.status[i]

ScoreSatisfied(f, m) ==
    f.score = <<>> \/ \E i \in 1..Len(f.score) : ScoreEquals(f.score[i], media[m].score)

ScoreSatisfiedSkipping(f, m) ==
    \/ \A i \in 1..Len(f.score) : ~WellFormedScore(f.score[i])
    \/ \E i \in 1..Len(f.score) : ScoreEquals(f.score[i], media[m].score)

(* the filters on the other fields: a contributor that exists, well-formed review dates, *)
(* and the presence of a review and of a cover                                           *)
OtherFiltersSatisfied(f, m) ==
    /\ \A a \in ParseInt(f.contributor) : a \in DOMAIN agents => a \in contributors[m]
    /\ \A d \in ParsePartialDate(f.review_from) : \E r \in media[m].review_date : r >= d
    /\ \A d \in ParsePartialDate(f.review_to) : \E r \in media[m].review_date : r <= d
    /\ f.has_review = "empty" => media[m].review = <<>>
    /\ f.has_review = "filled" => media[m].review # <<>>
    /\ f.has_cover = "empty" => media[m].cover = NONE
    /\ f.has_cover = "filled" => media[m].cover # NONE

(* C5, as claimed: apply_filters returns exactly the Media that satisfy     *)
(* every filter, a type, status or score filter being satisfied when the    *)
(* Media's value equals one of the values given, and a field without a      *)
(* value restricting nothing.                                               *)
C5_ExactlyTheMatching ==
    Answered =>
        resp.media_list = {m \in DOMAIN media :
            /\ TypeSatisfied(resp.filters, m)
            /\ StatusSatisfied(resp.filters, m)
            /\ ScoreSatisfied(resp.filters, m)
            /\ OtherFiltersSatisfied(resp.filters, m)}

(* C5, amended: as above, but score values that are neither 'none' nor a    *)
(* number are skipped, and a score filter in which no value is well-formed  *)
(* restricts nothing.                                                       *)
C5_ExactlyTheMatchingSkipping ==
    Answered =>
        resp.media_list = {m \in DOMAIN media :
            /\ TypeSatisfied(resp.filters, m)
            /\ StatusSatisfied(resp.filters, m)
            /\ ScoreSatisfiedSkipping(resp.filters, m)
            /\ OtherFiltersSatisfied(resp.filters, m)}

C5_Witness ==
    /\ Answered
    /\ Len(resp.filters.type) = 2
    /\ resp.filters.status # <<>>
    /\ Len(resp.filters.score) = 2
    /\ resp.media_list # {}
    /\ resp.media_list # DOMAIN media

(* C29: malformed score values are skipped.  The Media listed are those     *)
(* listed for the same request without its score values that are neither    *)
(* 'none' nor an integer: when every value is malformed the score filter    *)
(* restricts nothing, and a malformed value next to valid ones changes       *)
(* nothing.                                                                  *)
C29_MalformedScoresSkipped ==
    Answered =>
        LET well_formed == SelectSeq(resp.filters.score, WellFormedScore)
            without == [resp.filters EXCEPT !.score = well_formed]
            unfiltered == [resp.filters EXCEPT !.score = <<>>]
        IN  /\ resp.media_list = apply_filters(DOMAIN media, without).queryset
            /\ well_formed = <<>> =>
                    resp.media_list = apply_filters(DOMAIN media, unfiltered).queryset

(* the scores x and 7 were asked for: the Media with score 7 are listed and *)
(* another Media is not                                                     *)
C29_Witness ==
    /\ Answered
    /\ resp.filters.score = <<<<"x">>, <<"7">>>>
    /\ resp.media_list # {}
    /\ \E m \in DOMAIN media : m \notin resp.media_list
    /\ \A m \in resp.media_list : media[m].score = Some(7)

(* C6: for every value of the sort or order_by parameter the sort field is  *)
(* in the whitelist, the ordering is that field or that field after one     *)
(* '-', and nothing else is passed to order_by.                             *)
C6_SortWhitelisted ==
    Answered =>
        /\ \E f \in {"created_at", "updated_at", "review_date", "score"} : resp.sort_field = <<f>>
        /\ resp.sort \in {resp.sort_field, <<"-">> \o resp.sort_field}
        /\ resp.order_by = resp.sort

C6_Witness ==
    /\ Answered
    /\ resp.GET.sort = Some(<<"-", "bogus">>)
    /\ resp.order_by = <<"-", "review_date">>

SortParameter(GET) == Or(GET.sort, GET.order_by)

NamesUnlistedField(GET) ==
    /\ SortParameter(GET) # NONE
    /\ \A f \in {"created_at", "updated_at", "review_date", "score"} :
            LStripDash(TheValue(SortParameter(GET))) # <<f>>

----------------------------------------------------------------------------
(* Backup and restore *)

Imported(kinds) == last.kind \in kinds /\ last.error = ""

ImportKinds == {"import_backup", "backup_import"}

Origin == ArchiveOf(last.file).origin

HasUnsafeMember(archive) ==
    \E member \in archive.members :
        \/ member.path # <<>> /\ member.path[1] = "/"
        \/ \E i \in 1..Len(member.path) : member.path[i] = ".."

(* C8: an archive with a member whose path is absolute or has a '..' part   *)
(* is rejected with a CommandError before any member is extracted, before  *)
(* the database is flushed and before any record or media file is written. *)
C8_UnsafeRejectedFirst ==
    [][(last'.kind \in ImportKinds /\ HasUnsafeMember(ArchiveOf(last'.file))) =>
            /\ last'.error # ""
            /\ EndsWithTarGz(last'.file.name) => last'.error = "Unsafe path in archive"
            /\ last'.log = <<>>
            /\ UNCHANGED <<agents, media, contributors, tags, mediaTags, mediaFiles>>]_vars

C8_Witness ==
    /\ last.kind = "import_backup"
    /\ last.flush
    /\ last.error = "Unsafe path in archive"
    /\ \E member \in ArchiveOf(last.file).members : ".." \in Range(member.path)
    /\ Dir(<<"media">>) \in ArchiveOf(last.file).members
    /\ media # <<>>
    /\ last.differed

(* C9: importing a backup with flush, by the command or by the backup_import *)
(* view, leaves the Media records equal to those of the state the backup was *)
(* made in, whatever was added, changed or deleted in between.               *)
C9_FlushImportRestores ==
    (Imported(ImportKinds) /\ last.flush) =>
        /\ media = Origin.media
        /\ contributors = Origin.contributors
        /\ mediaTags = Origin.mediaTags

WholeMilliseconds(row) == [row EXCEPT !.created_at = @ - (@ % 1000)]

(* C9, as the code has it: the Media records are those of the state the      *)
(* backup was made in, with the same fields, contributors and tags, except   *)
(* that created_at comes back cut to whole milliseconds.                     *)
C9_FlushImportRestoresToMillisecond ==
    (Imported(ImportKinds) /\ last.flush) =>
        /\ DOMAIN media = DOMAIN Origin.media
        /\ \A pk \in DOMAIN media : media[pk] = WholeMilliseconds(Origin.media[pk])
        /\ contributors = Origin.contributors
        /\ mediaTags = Origin.mediaTags

C9_Witness ==
    /\ Imported({"backup_import"})
    /\ last.differed
    /\ \E pk \in DOMAIN Origin.media : Origin.media[pk].created_at % 1000 # 0
    /\ \E m \in DOMAIN Origin.media : Origin.contributors[m] # {}

(* C10: an import without flush merges: every record of the backup exists   *)
(* with the values stored in the backup, and every record that existed      *)
(* before and whose primary key is not in the backup is unchanged.          *)
C10_ImportMerges ==
    [][(last'.kind = "import_backup" /\ last'.error = "" /\ ~last'.flush) =>
            LET dump == ArchiveOf(last'.file).database
                Stored(model) == {dump[i] : i \in {j \in 1..Len(dump) : dump[j].model = model}}
                Pks(model) == {obj.pk : obj \in Stored(model)}
            IN  /\ \A obj \in Stored("core.agent") :
                        obj.pk \in DOMAIN agents' /\ agents'[obj.pk] = obj.fields.name
                /\ \A obj \in Stored("core.tag") :
                        obj.pk \in DOMAIN tags' /\ tags'[obj.pk] = obj.fields.name
                /\ \A obj \in Stored("core.media") :
                        /\ obj.pk \in DOMAIN media'
                        /\ media'[obj.pk] = obj.fields.row
                        /\ contributors'[obj.pk] = Range(obj.fields.contributors)
                        /\ mediaTags'[obj.pk] = Range(obj.fields.tags)
                /\ \A pk \in DOMAIN agents \ Pks("core.agent") :
                        pk \in DOMAIN agents' /\ agents'[pk] = agents[pk]
                /\ \A pk \in DOMAIN tags \ Pks("core.tag") :
                        pk \in DOMAIN tags' /\ tags'[pk] = tags[pk]
                /\ \A pk \in DOMAIN media \ Pks("core.media") :
                        /\ pk \in DOMAIN media'
                        /\ media'[pk] = media[pk]
                        /\ contributors'[pk] = contributors[pk]
                        /\ mediaTags'[pk] = mediaTags[pk]]_vars

C10_Witness ==
    /\ Imported({"import_backup"})
    /\ ~last.flush
    /\ last.overwritten # {}
    /\ Origin.media # <<>>
    /\ DOMAIN media \ DOMAIN Origin.media # {}

(* C11: every archive create_backup writes holds exactly one metadata.json  *)
(* with the keys created_at, datakult_version, django_version and           *)
(* database_engine, exactly one database.json with the dump of all records  *)
(* but content types, permissions and sessions, and a media/ tree if and    *)
(* only if MEDIA_ROOT exists and is not empty.                              *)
Named(archive, name) == {member \in archive.members : member.path = <<name>>}

AllRecordsBut(labels) ==
    UNION {{[model |-> l, pk |-> pk] : pk \in SystemTables[l]} :
                l \in {x \in DOMAIN SystemTables : x \notin labels}}

C11_ArchiveContents ==
    [][last'.kind = "export_backup" =>
            LET archive == ArchiveOf(last'.file)
            IN  /\ Named(archive, "metadata.json") = {File(<<"metadata.json">>)}
                /\ DOMAIN archive.metadata =
                        {"created_at", "datakult_version", "django_version", "database_engine"}
                /\ Named(archive, "database.json") = {File(<<"database.json">>)}
                /\ archive.system =
                        AllRecordsBut({<<"contenttypes", "contenttype">>, <<"auth", "permission">>,
                                       <<"sessions", "session">>})
                /\ {obj.pk : obj \in {o \in Range(archive.database) : o.model = "core.media"}}
                        = DOMAIN media
                /\ {obj.pk : obj \in {o \in Range(archive.database) : o.model = "core.agent"}}
                        = DOMAIN agents
                /\ Len(archive.database) = Cardinality(DOMAIN media) + Cardinality(DOMAIN agents)
                                           + Cardinality(DOMAIN tags)
                /\ (Named(archive, "media") # {}) <=> (mediaFiles # {})
                /\ mediaFiles # {} =>
                        \A f \in mediaFiles : File(<<"media">> \o f) \in archive.members
                /\ backups'[last'.file.name] = archive]_vars

C11_Witness ==
    /\ last.kind = "export_backup"
    /\ Dir(<<"media">>) \in ArchiveOf(last.file).members
    /\ media # <<>>
    /\ agents # <<>>

----------------------------------------------------------------------------
(* Rotation *)

IsBackupName(name) == name[1] = "datakult_backup_" /\ name[Len(name)] = ".tar.gz"

BackupsIn(dir) == {n \in DOMAIN dir : IsBackupName(n)}

(* C12: after export_backup --keep N (N >= 1) or auto_backup --keep N        *)
(* completes, at most N files named datakult_backup_*.tar.gz remain, and     *)
(* they are the N most recently modified of those present once the new      *)
(* backup was written; no other file is touched.                            *)
C12_KeepsTheNewestN ==
    [][(/\ last'.kind \in {"export_backup", "auto_backup"}
        /\ last'.error = ""
        /\ last'.keep # NONE
        /\ TheValue(last'.keep) >= (IF last'.kind = "export_backup" THEN 1 ELSE 0)) =>
            LET N == TheValue(last'.keep)
                present == last'.dir
                remain == BackupsIn(mtimes')
            IN  /\ Cardinality(remain) <= N
                /\ remain \subseteq BackupsIn(present)
                /\ Cardinality(BackupsIn(present)) >= N => Cardinality(remain) = N
                /\ \A r \in remain, d \in BackupsIn(present) \ remain : present[r] >= present[d]
                /\ \A n \in DOMAIN present \ BackupsIn(present) : n \in DOMAIN mtimes'
                /\ \A n \in DOMAIN mtimes' : mtimes'[n] = present[n]
                /\ DOMAIN backups' = DOMAIN mtimes']_vars

C12_Witness ==
    /\ last.kind \in {"export_backup", "auto_backup"}
    /\ last.keep = Some(2)
    /\ last.deleted >= 1
    /\ Cardinality(BackupsIn(mtimes)) = 2
    /\ OtherFile \in DOMAIN mtimes
    /\ \E r \in BackupsIn(mtimes), d \in BackupsIn(last.dir) \ BackupsIn(mtimes) :
            last.dir[r] = last.dir[d]

(* C13: export_backup without --keep deletes no file, and a run with the    *)
(* default file name adds an archive of a new name: k runs leave k more.    *)
C13_NoKeepNoDelete ==
    [][(last'.kind = "export_backup" /\ last'.keep = NONE /\ clock' # clock) =>
            /\ DOMAIN backups \subseteq DOMAIN backups'
            /\ \A n \in DOMAIN backups \ {last'.file.name} :
                    backups'[n] = backups[n] /\ mtimes'[n] = mtimes[n]
            /\ last'.filename = NONE =>
                    /\ last'.file.name \notin DOMAIN backups
                    /\ Cardinality(DOMAIN backups') = Cardinality(DOMAIN backups) + 1]_vars

C13_Witness ==
    /\ last.kind = "export_backup"
    /\ last.keep = NONE
    /\ last.filename = NONE
    /\ Cardinality({n \in BackupsIn(mtimes) : n # CopiedBackup}) >= 3

(* C26: after export_backup --keep N or auto_backup --keep N completes     *)
(* without error, whatever N the command accepts, the archive the command   *)
(* has just written still exists.                                           *)
C26_NewArchiveSurvives ==
    [][(/\ last'.kind \in {"export_backup", "auto_backup"}
        /\ last'.error = ""
        /\ last'.keep # NONE
        /\ clock' # clock) =>
            /\ last'.file.name \in DOMAIN backups'
            /\ backups'[last'.file.name] = TheValue(last'.file.content)]_vars

----------------------------------------------------------------------------
(* Saved views *)

SameOwnerAndName(p, q) ==
    savedViews[p].user = savedViews[q].user /\ savedViews[p].name = savedViews[q].name

(* C14: there is at most one SavedView per (user, name) in every reachable *)
(* state, and a saved_view_save POST whose name the user already has        *)
(* overwrites that view's filters, sort and view mode and creates no view.  *)
C14_OneViewPerUserAndName ==
    /\ [](\A p, q \in DOMAIN savedViews : SameOwnerAndName(p, q) => p = q)
    /\ [][(/\ last'.kind = "saved_view_save"
           /\ last'.error = ""
           /\ last'.log = <<"POST", "updated">>) =>
                /\ DOMAIN savedViews' = DOMAIN savedViews
                /\ savedViews[last'.pk].user = last'.user
                /\ savedViews'[last'.pk].user = last'.user
                /\ savedViews'[last'.pk].name = savedViews[last'.pk].name
                /\ \A pk \in DOMAIN savedViews \ {last'.pk} : savedViews'[pk] = savedViews[pk]]_vars
    /\ [][(/\ last'.kind = "saved_view_save"
           /\ last'.log = <<"POST", "created">>) =>
                \A pk \in DOMAIN savedViews :
                    savedViews[pk].user = last'.user
                        => savedViews[pk].name # savedViews'[last'.pk].name]_vars

C14_Witness ==
    /\ last.kind = "saved_view_save"
    /\ last.log = <<"POST", "updated">>
    /\ savedViews[last.pk].sort = <<"-", "score">>
    /\ \E q \in DOMAIN savedViews : q # last.pk /\ savedViews[q].name = savedViews[last.pk].name

OwnedByOthers(user) == {pk \in DOMAIN savedViews : savedViews[pk].user # user}

(* C15: saved views are isolated per user.  A saved_view_delete POST with  *)
(* the pk of another user's view deletes nothing and reports 'View not     *)
(* found'; saved_view_save neither creates nor modifies a view of another  *)
(* user; the saved_views context lists exactly the requester's views, and  *)
(* none for an anonymous request.                                          *)
C15_ViewsIsolatedPerUser ==
    [][/\ (/\ last'.kind = "saved_view_delete"
           /\ last'.log[1] = "POST"
           /\ last'.user # Anonymous
           /\ last'.pk \in OwnedByOthers(last'.user)) =>
                /\ savedViews' = savedViews
                /\ last'.error = "View not found"
       /\ last'.kind \in {"saved_view_save", "saved_view_delete"} =>
                /\ \A pk \in OwnedByOthers(last'.user) :
                        pk \in DOMAIN savedViews' /\ savedViews'[pk] = savedViews[pk]
                /\ \A pk \in DOMAIN savedViews' \ DOMAIN savedViews :
                        savedViews'[pk].user = last'.user /\ last'.user # Anonymous
       /\ last'.kind = "saved_views" =>
                /\ resp'.saved_views = {pk \in DOMAIN savedViews : savedViews[pk].user = resp'.user}
                /\ resp'.user = Anonymous => resp'.saved_views = {}]_vars

C15_Witness ==
    /\ last.kind = "saved_view_delete"
    /\ last.error = "View not found"
    /\ last.pk \in DOMAIN savedViews
    /\ savedViews[last.pk].user \notin {last.user, Anonymous}
    /\ \E pk \in DOMAIN savedViews : savedViews[pk].user = last.user

----------------------------------------------------------------------------
(* Metadata clients *)

(* the image host of each source *)
ImageHost(client) ==
    CASE client = "tmdb" -> <<"image.tmdb.org">>
      [] client = "igdb" -> <<"images.igdb.com">>
      [] client = "openlibrary" -> <<"covers.openlibrary.org">>
      [] client = "musicbrainz" -> <<"coverartarchive.org">>

OnImageHost(client, url) ==
    urlparse(url).scheme = "https" /\ urlparse(url).hostname = ImageHost(client)

Public(ip) == ip = "104.16.0.1"

(* C16 as stated: every HTTP request a download issues is for a URL on the *)
(* source's own image host, and a URL that fails validation gives None     *)
(* and no request.                                                         *)
C16_OnlyValidatedUrlsRequested ==
    last.kind = "download" =>
        /\ \A i \in DOMAIN last.http : OnImageHost(last.client, last.http[i])
        /\ ~ValidCoverUrl(last.client, last.url, last.dns) =>
                last.http = <<>> /\ last.result = NONE

(* C16, amended: a download requests nothing but the URL it was given, and *)
(* only after that URL passed validation against the source's image host   *)
(* (for TMDB: https, host image.tmdb.org, the poster path pattern, every   *)
(* resolved address public); a URL that fails validation gives None and no *)
(* request.  The TMDB client never follows a redirect; the other clients   *)
(* follow one to a location that is not validated.                         *)
C16_FirstRequestValidated ==
    last.kind = "download" =>
        /\ last.http # <<>> =>
                /\ last.http[1] = last.url
                /\ OnImageHost(last.client, last.url)
                /\ last.client = "tmdb" =>
                        /\ TMDB_POSTER_PATH_PATTERN(urlparse(last.url).path)
                        /\ last.dns # {}
                        /\ \A ip \in last.dns : Public(ip)
        /\ Len(last.http) > 1 => last.client # "tmdb"
        /\ ~ValidCoverUrl(last.client, last.url, last.dns) =>
                last.http = <<>> /\ last.result = NONE

C16_Witness ==
    /\ last.kind = "download"
    /\ last.client = "tmdb"
    /\ last.http = <<TmdbPoster>>
    /\ last.result # NONE

----------------------------------------------------------------------------
(* Stored years and scores *)

(* C17: after any sequence of media_edit, media_delete and import_backup,  *)
(* every stored Media has pub_year unset or within [-4000, 2200] and score *)
(* unset or within 1..10.                                                  *)
C17_YearAndScoreInRange ==
    \A pk \in DOMAIN media :
        /\ \A y \in media[pk].pub_year : y >= -4000 /\ y <= 2200
        /\ \A sc \in media[pk].score : sc \in 1..10

----------------------------------------------------------------------------
(* Pages *)

(* the page a request asks for, when it names one *)
AskedPage(GET) == IF GET.page = NONE THEN Some(1) ELSE ParseInt(TheValue(GET.page))

LastPage(n) == (n + 19) \div 20

(* the positions 20(p-1)+1 .. min(20p, n) of a result *)
Positions(p, n) == (20 * (p - 1) + 1)..Min({20 * p, n})

(* C18: for a filtered and sorted result of n Media, page p (1-based,      *)
(* p <= ceil(n/20)) of index and of load_more_media holds exactly the      *)
(* items at positions 20(p-1)+1 .. min(20p, n) of the result, in order;    *)
(* every item is on exactly one page; has_next holds exactly when 20p < n. *)
C18_PageHoldsItsTwenty ==
    (resp.kind \in {"index", "load_more_media"} /\ resp.status = 200) =>
        LET n == Len(resp.queryset)
        IN  /\ \A p \in AskedPage(resp.GET) :
                (p >= 1 /\ p <= LastPage(n)) =>
                    /\ resp.page_obj.number = p
                    /\ Len(resp.page_obj.object_list) = Cardinality(Positions(p, n))
                    /\ \A i \in Positions(p, n) :
                            resp.page_obj.object_list[i - 20 * (p - 1)] = resp.queryset[i]
                    /\ resp.page_obj.has_next <=> 20 * p < n
            /\ \A i \in 1..n :
                Cardinality({p \in 1..LastPage(n) :
                    resp.queryset[i] \in Range(page(resp.queryset, p).object_list)}) = 1

C18_Witness ==
    /\ resp.kind = "load_more_media"
    /\ resp.status = 200
    /\ Len(resp.queryset) = 41
    /\ resp.page_obj.number = 3
    /\ resp.page_obj.object_list = <<resp.queryset[41]>>
    /\ ~resp.page_obj.has_next

----------------------------------------------------------------------------
(* Search *)

(* value contains q, letters compared without regard to case *)
ContainsIgnoringCase(value, q) ==
    \E k \in 0..(Len(value) - Len(q)) :
        \A j \in 1..Len(q) : LowerChar(value[k + j]) = LowerChar(q[j])

SearchMatches(m, q) ==
    \/ ContainsIgnoringCase(media[m].title, q)
    \/ ContainsIgnoringCase(media[m].review, q)
    \/ \E a \in contributors[m] : ContainsIgnoringCase(agents[a], q)
    \/ \E year \in ParseInt(q) : media[m].pub_year = {year}

(* C19: build_search_queryset(q) returns exactly the Media whose title,    *)
(* review or some contributor's name contains q case-insensitively, or     *)
(* whose pub_year equals q when q parses as an integer, and each matching  *)
(* Media once, even when several of its contributors match.                *)
C19_SearchFindsEachOnce ==
    resp.kind = "build_search_queryset" =>
        /\ DOMAIN resp.rows = {m \in DOMAIN media : SearchMatches(m, resp.query)}
        /\ \A m \in DOMAIN resp.rows : resp.rows[m] = 1

C19_Witness ==
    /\ resp.kind = "build_search_queryset"
    /\ resp.query = <<"A">>
    /\ \E m \in DOMAIN resp.rows :
        /\ Cardinality({a \in contributors[m] : ContainsIgnoringCase(agents[a], resp.query)}) = 2
        /\ resp.rows[m] = 1
    /\ DOMAIN resp.rows # DOMAIN media

----------------------------------------------------------------------------
(* External searches *)

Trimmed(q) == Strip(q)

(* C20 as stated: each external search, by the view and by the client     *)
(* method, returns an empty result list and calls no API when the trimmed *)
(* query has fewer than 2 characters.                                      *)
C20_ShortQueryNoCall ==
    (last.kind \in {"search_htmx", "search"} /\ Len(Trimmed(last.query)) < 2) =>
        last.result = Some(<<>>) /\ last.http = <<>>

(* C20, amended: each search view returns an empty result list and calls   *)
(* no API when the trimmed query has fewer than 2 characters; each client  *)
(* method does so when the query as given, untrimmed, has fewer than 2     *)
(* characters.                                                             *)
C20_ShortQueryNoCallAsGiven ==
    /\ (last.kind = "search_htmx" /\ Len(Trimmed(last.query)) < 2) =>
            last.result = Some(<<>>) /\ last.http = <<>>
    /\ (last.kind = "search" /\ Len(last.query) < 2) =>
            last.result = Some(<<>>) /\ last.http = <<>>

C20_Witness ==
    /\ last.kind = "search_htmx"
    /\ last.query = <<"a", " ", " ">>
    /\ last.result = Some(<<>>)
    /\ last.http = <<>>
    /\ last.error = ""

----------------------------------------------------------------------------
(* The login wall *)

ByAnonymous == last.kind = "dispatch" /\ last.user = Anonymous

(* C21 as stated: every view of core.views and validate_media_field        *)
(* answers a request of an unauthenticated user with a redirect to the     *)
(* login page, and runs no part of the view.                               *)
C21_AnonymousRedirected ==
    ByAnonymous => last.status = 302 /\ last.error = "login" /\ last.log = <<>>

(* C21, amended: no view runs its body for an unauthenticated user and no  *)
(* Media, Agent, Tag, SavedView or backup file changes; the answer is a    *)
(* redirect to the login page, except that validate_media_field answers    *)
(* every request that is not a POST with 405 Method Not Allowed.           *)
C21_AnonymousKeptOut ==
    /\ [](ByAnonymous =>
            /\ last.log = <<>>
            /\ IF last.filename \in {Some(<<"validate_media_field", m>>) : m \in HttpMethods \ {"POST"}}
               THEN last.status = 405
               ELSE last.status = 302 /\ last.error = "login")
    /\ [][(last'.kind = "dispatch" /\ last'.user = Anonymous) =>
            UNCHANGED <<agents, media, contributors, tags, mediaTags, mediaFiles, backups,
                        savedViews>>]_vars
    /\ [][(last.kind = "dispatch" /\ last.user = Anonymous /\ last'.kind # "dispatch") =>
            FALSE]_vars

C21_Witness ==
    /\ ByAnonymous
    /\ last.filename = Some(<<"media_delete", "POST">>)
    /\ last.status = 302
    /\ media # <<>>

----------------------------------------------------------------------------
(* Imports that fail *)

Database == <<agents, media, contributors, tags, mediaTags>>

(* C23: backup_import changes neither the database nor the media store     *)
(* unless the request is a POST with an uploaded file whose name ends in   *)
(* .tar.gz; a successful import is answered with a redirect to home, and  *)
(* every other request, a POST whose import fails included, with a         *)
(* redirect to backup_manage.                                              *)
C23_ImportViewOutcomes ==
    /\ [][(/\ last'.kind = "backup_import"
           /\ ~(/\ last'.method = "POST"
                /\ last'.filename # NONE
                /\ EndsWithTarGz(TheValue(last'.filename))))
            => UNCHANGED <<Database, mediaFiles>>]_vars
    /\ [](last.kind = "backup_import" =>
            /\ last.status = 302
            /\ last.to = IF last.method = "POST" /\ last.filename # NONE
                             /\ EndsWithTarGz(TheValue(last.filename)) /\ last.error = ""
                          THEN "home" ELSE "backup_manage")

(* C25: an import that ends with an error leaves the database as it was,   *)
(* with --flush as without it.                                             *)
C25_FailedImportKeepsData ==
    [][last'.kind \in {"import_backup", "backup_import"} /\ last'.error # ""
            => UNCHANGED Database]_vars
----------------------------------------------------------------------------
(* Requests served at the same time *)

(* C24: however media_edit POSTs with the same new contributor name are    *)
(* interleaved, once they are all answered at most one Agent has that name *)
(* and every request has linked its Media to that one Agent.               *)
C24_OneAgentPerName ==
    (resp.kind = "concurrent" /\ \A r \in DOMAIN resp.requests : resp.requests[r].pc = "done") =>
        \A r1, r2 \in DOMAIN resp.requests :
            LET q1 == resp.requests[r1]
                q2 == resp.requests[r2]
            IN  (/\ q1.pc = "done"
                 /\ q2.pc = "done"
                 /\ CleanName(q1.name) = CleanName(q2.name))
                => /\ Cardinality(WithName(agents, CleanName(q1.name))) = 1
                   /\ q1.status = 302
                   /\ contributors[q1.pk] = contributors[q2.pk]
----------------------------------------------------------------------------
(* The Twitch token of the IGDB client *)

----------------------------------------------------------------------------
(* Saved views that are refused *)

Listed(values) == {values[i] : i \in DOMAIN values}

(* C28: a saved_view_save request that is not a POST, or whose trimmed name *)
(* is empty, or that holds an invalid type, status, score, sort, view mode, *)
(* contributor, review date, has_review or has_cover, creates no SavedView  *)
(* and modifies none.                                                       *)
C28_RefusedSaveChangesNothing ==
    [][(/\ last'.kind = "saved_view_save"
        /\ last'.query # <<>>
        /\ LET POST == last'.query[1]
               sort == IF POST.sort = NONE THEN <<"-", "review_date">> ELSE TheValue(POST.sort)
           IN  \/ last'.log[1] # "POST"
               \/ POST.view_name = NONE
               \/ \A i \in DOMAIN TheValue(POST.view_name) : TheValue(POST.view_name)[i] = " "
               \/ ~(Listed(POST.type) \subseteq MediaTypeChoices)
               \/ ~(Listed(POST.status) \subseteq StatusChoices)
               \/ ~(Listed(POST.score) \subseteq ValidScores)
               \/ \A f \in {"created_at", "updated_at", "review_date", "score"} :
                        sort[Len(sort)] # f \/ \E i \in 1..(Len(sort) - 1) : sort[i] # "-"
               \/ POST.view_mode \notin {NONE, Some("grid"), Some("list")}
               \/ /\ POST.contributor \notin {NONE, Some(<<>>)}
                  /\ \A a \in DOMAIN agents : ParseInt(TheValue(POST.contributor)) # Some(a)
               \/ \E d \in {Strip(POST.review_from), Strip(POST.review_to)} :
                        d # <<>> /\ ParsePartialDate(d) = NONE
               \/ POST.has_review \notin {"", "empty", "filled"}
               \/ POST.has_cover \notin {"", "empty", "filled"})
            => savedViews' = savedViews]_vars

(* a view exists and a POST under its name with a review date that is no   *)
(* date has been refused                                                   *)
C28_Witness ==
    /\ last.kind = "saved_view_save"
    /\ last.query # <<>>
    /\ last.log = <<"POST">>
    /\ last.query[1].review_to = <<"2", "-", "0">>
    /\ \E pk \in DOMAIN savedViews :
            /\ savedViews[pk].name = TheValue(last.query[1].view_name)
            /\ savedViews[pk].filter_review_to = <<>>
----------------------------------------------------------------------------
(* Covers downloaded on import *)

(* C30: _download_cover hands a URL that names one of the four image hosts *)
(* to the matching client's download and returns its bytes or None, and     *)
(* never raises; for another URL, an empty one, or a TMDB or IGDB client    *)
(* that is not configured it returns None, and media_edit saves the Media   *)
(* without a downloaded cover.                                              *)
C30_DownloadCoverNeverRaises ==
    (last.kind = "media_edit" /\ last.log = <<"_download_cover">>) =>
        /\ last.raised = ""
        /\ last.status = 302
        /\ last.pk \in DOMAIN media
        /\ (\/ last.client = ""
            \/ last.client \in {"tmdb", "igdb"} /\ last.client \notin last.query[1])
                => last.http = <<>> /\ last.result = NONE
        /\ last.result = NONE => media[last.pk].cover = NONE
        /\ last.result # NONE => media[last.pk].cover # NONE /\ last.http = <<last.url>>
====
